---- MODULE Spec2Model ----
(***************************************************************************)
(* Model of the call agent: the call lifecycle manager (call-manager.ts),  *)
(* the orchestrating server (server.ts) and the realtime voice session     *)
(* (openai-realtime.ts, in its agents-SDK variant and its raw-websocket    *)
(* variant).                                                               *)
(*                                                                         *)
(* The slot engine of the scheduling variant (calendar-engine.ts) is       *)
(* modelled beside them.                                                   *)
(*                                                                         *)
(* These specifications share this module:                                 *)
(*   Spec     one call record driven by startCall, provider status         *)
(*            callbacks, retry timers, media-stream start frames, the      *)
(*            report_call tool and the hangup timer;                       *)
(*   SpecSdk  the handshake of one agents-SDK realtime session             *)
(*            (SpecSdkFair adds the fairness of its greeting timer);       *)
(*   SpecWs   the message loop of one raw-websocket realtime session       *)
(*            (SpecWsAudio follows its audio path instead of its tools);   *)
(*   SpecCal  one CalendarEngine answering findSlots, checkSlot and        *)
(*            createEvent;                                                 *)
(*   SpecDial the call manager alone, under any retry configuration and    *)
(*            any spelling of the reported status;                         *)
(*   SpecHook the provider's status webhook, from its payload through      *)
(*            mapStatus (providers/twilio.ts) to the call record;          *)
(*   SpecSrv  the media-stream socket of the server: start, media and      *)
(*            stop frames, the socket dropping, and the server's stop();   *)
(*   SpecCodec the mu-law encoder and decoder on one 16-bit sample;        *)
(*   SpecBook one CalendarEngine without buffers taking bookings.          *)
(* Each specification holds the variables of the others fixed.             *)
(***************************************************************************)
EXTENDS Integers, Sequences, FiniteSets, TLC

VARIABLES
    \* ---- config.retry (PluginConfig), fixed after construction
    maxAttempts,      \* config.retry.maxAttempts
    retryStatuses,    \* config.retry.retryStatuses, a set of spellings
    initialDelayMs,   \* config.retry.initialDelayMs
    backoffFactor,    \* config.retry.backoffFactor, as <<numerator, denominator>>
    \* ---- the call record held in CallManager.calls
    created,          \* the record is in CallManager.calls
    status,           \* call.status
    attempt,          \* call.attempt
    report,           \* call.report (NoReport while undefined)
    completedAt,      \* call.completedAt (0 while undefined)
    \* ---- timers and collaborators around the record
    pendingRetries,   \* setTimeout(() => dial(call)) timers not yet fired
    pendingHangups,   \* setTimeout(() => endCall(id)) timers not yet fired
    streamStarted,    \* a realtime session was constructed for the call
    now,              \* logical clock read by new Date()
    \* ---- observation of the run
    dials,            \* number of dial() invocations
    notified,         \* number of onReport notifications
    reportCalls,      \* number of report_call invocations
    toolResult,       \* what the last report_call returned to the model
    lastOp,           \* the operation that produced the current state
    lastDelay,        \* the delay of the retry timer set last (0 before the first)
    startPc,          \* where startCall stands: "idle", "awaiting", "returned", "threw"
    writers,          \* for each field of the record, the components that wrote it
    \* ---- OpenAIRealtimeSession, agents-SDK variant
    apiKey,                  \* config.openai.apiKey is set
    session,                 \* this.session is defined
    transport,               \* state of the socket to the model
    closed,                  \* this.closed
    greetingSent,            \* this.greetingSent
    updateSent,              \* this.updateSent
    awaitingSessionUpdated,  \* this.awaitingSessionUpdated
    greetingTimer,           \* a greeting timeout is armed and has not fired
    updatePc,                \* where sendSessionUpdate stands around its await
    sent,                    \* messages handed to the transport, in order
    confirmed,               \* a session.updated arrived after session.update went out
    timedOut,                \* the greeting timeout has elapsed
    sdkOp,                   \* the handler that produced the current state
    sessionCloses,           \* number of this.session.close() calls
    modelAudio,              \* audio deltas and speech signals received from the model, in order
    streamOut,               \* frames written to the telephony media socket, in order
    \* ---- OpenAIRealtimeSession, raw-websocket variant
    wsKey,            \* config.openai.apiKey is set
    ws,               \* this.ws: "none", or the socket's readyState
    wsClosed,         \* this.closed
    responsePending,  \* this.responsePending
    wsSent,           \* messages written to the socket, in order
    scheduledEvent,   \* call.scheduledEvent is set
    toolCalls,        \* tool-call-arguments-complete messages received, in order
    wsOp,             \* the handler that produced the current state
    wsCloses,         \* number of this.ws.close() calls
    wsModelAudio,     \* audio deltas and speech signals received from the model, in order
    wsStreamOut,      \* frames written to the telephony media socket, in order
    \* ---- the CalendarEngine of one call (calendar-engine.ts)
    occupiedTimeslots, \* call.request.occupiedTimeslots, as stored
    midnightHour,     \* the hour Intl.DateTimeFormat prints at local midnight
    calRequest,       \* the findSlots request under study
    calResult,        \* what the last engine operation returned
    calOp,            \* the last engine operation
    calArg,           \* the request of the last checkSlot or createEvent
    \* ---- CallAgentServer (server.ts): the /status route and one media socket
    hookPayload,      \* CallStatus of the last /status body (None while missing)
    srvSocket,        \* the media socket: "open", "closed" by the server, "dropped" by the peer
    srvSessions,      \* every OpenAIRealtimeSession the server has constructed, in order
    srvTable,         \* this.sessions: stream key -> index into srvSessions, 0 when absent
    srvOp,            \* the handler that produced the current state
    srvFrame,         \* the last frame read from the media socket
    srvSeq,           \* number of frames read from the media socket
    \* ---- the mu-law codec (openai-realtime.ts, providers/mock.ts)
    pcmSample,        \* a 16-bit PCM sample
    muLawByte,        \* its encoding, None before linearToMuLawSample ran
    pcmDecoded        \* the decoding of muLawByte, None before muLawDecodeSample ran

callVars == <<maxAttempts, retryStatuses, initialDelayMs, backoffFactor, lastDelay,
              startPc, created, status, attempt, report,
              completedAt, pendingRetries, pendingHangups, streamStarted, now,
              dials, notified, reportCalls, toolResult, lastOp, writers>>

sdkVars == <<apiKey, session, transport, closed, greetingSent, updateSent,
             awaitingSessionUpdated, greetingTimer, updatePc, sent, confirmed,
             timedOut, sdkOp, sessionCloses, modelAudio, streamOut>>

wsVars == <<wsKey, ws, wsClosed, responsePending, wsSent, scheduledEvent,
            toolCalls, wsOp, wsCloses, wsModelAudio, wsStreamOut>>

calVars == <<occupiedTimeslots, midnightHour, calRequest, calResult, calOp, calArg>>

srvVars == <<hookPayload, srvSocket, srvSessions, srvTable, srvOp, srvFrame, srvSeq>>

codecVars == <<pcmSample, muLawByte, pcmDecoded>>

vars == <<callVars, sdkVars, wsVars, calVars, srvVars, codecVars>>

\* Steps of one component leave the others alone.
OnlyCall == UNCHANGED <<sdkVars, wsVars, calVars, srvVars, codecVars>>
OnlySdk == UNCHANGED <<callVars, wsVars, calVars, srvVars, codecVars>>
OnlyCal == UNCHANGED <<callVars, sdkVars, wsVars, srvVars, codecVars>>

-----------------------------------------------------------------------------
(* Bounds of the model *)

MaxAttemptsCfg == 3
MaxPending == 2
MaxReports == 2
MaxWsSent == 6
MaxToolCalls == 2
MaxSdkSent == 3
MaxModelAudio == 2
MaxSessions == 2
MaxFrames == 5

\* Math.max
Max(a, b) == IF a >= b THEN a ELSE b

-----------------------------------------------------------------------------
(* CallStatus values (types.ts).  A status is a sequence of characters so   *)
(* that normalizeStatus can be modelled by what it does to each character. *)

Queued     == <<"q","u","e","u","e","d">>
Dialing    == <<"d","i","a","l","i","n","g">>
InProgress == <<"i","n","_","p","r","o","g","r","e","s","s">>
Completed  == <<"c","o","m","p","l","e","t","e","d">>
Busy       == <<"b","u","s","y">>
NoAnswer   == <<"n","o","_","a","n","s","w","e","r">>
Failed     == <<"f","a","i","l","e","d">>
Canceled   == <<"c","a","n","c","e","l","e","d">>

CallStatus == {Queued, Dialing, InProgress, Completed, Busy, NoAnswer, Failed, Canceled}

\* The values TwilioProvider.mapStatus can hand to handleProviderStatus.
ProviderStatuses == {InProgress, Completed, Busy, NoAnswer, Failed, Canceled}

\* Spellings a configuration may use for no_answer.
NoAnswerDash  == <<"n","o","-","a","n","s","w","e","r">>
BusyUpper     == <<"B","U","S","Y">>

\* config.retry.retryStatuses: one status, the default, and the README's spelling.
RetryConfigs ==
    { {Busy},
      {Busy, NoAnswer, Failed},
      {BusyUpper, NoAnswerDash, Failed} }

UpperChars == <<"A","B","C","D","E","F","G","H","I","J","K","L","M",
                "N","O","P","Q","R","S","T","U","V","W","X","Y","Z">>
LowerChars == <<"a","b","c","d","e","f","g","h","i","j","k","l","m",
                "n","o","p","q","r","s","t","u","v","w","x","y","z">>

\* String.prototype.toLowerCase on one character
ToLowerChar(c) ==
    IF \E i \in 1..26 : UpperChars[i] = c
    THEN LowerChars[CHOOSE i \in 1..26 : UpperChars[i] = c]
    ELSE c

ReplaceSeparator_dashOnly(c) == IF c = "-" THEN "_" ELSE c

\* replace(/[-\s]/g, "_") on one character
ReplaceSeparator(c) == IF c \in {"-", " ", "\t"} THEN "_" ELSE c

NormalizeStatus(value) ==
    [i \in 1..Len(value) |-> ReplaceSeparator(ToLowerChar(value[i]))]

ShouldRetry_offByOne(st, att) ==
    /\ att <= maxAttempts
    /\ NormalizeStatus(st) \in {NormalizeStatus(r) : r \in retryStatuses}

\* CallManager.shouldRetry
ShouldRetry(st, att) ==
    IF att >= maxAttempts
    THEN FALSE
    ELSE NormalizeStatus(st) \in {NormalizeStatus(r) : r \in retryStatuses}

-----------------------------------------------------------------------------
(* The report_call tool *)

NoReport == [summary |-> "<undefined>", outcome |-> "<undefined>"]

Outcomes == {"success", "failure", "voicemail", "no_answer", "unknown"}

\* Arguments the model may pass: summary already trimmed or blank, outcome
\* inside or outside the enum.
ReportArgs ==
    { [summary |-> s, outcome |-> o] : s \in {"", "booked", "declined"},
                                       o \in {"success", "bogus"} }

\* normalizeReport (summary and outcome; nextSteps and data are carried along
\* unchanged and are left out of the record)
NormalizeReport(args) ==
    [summary |-> IF args.summary = "" THEN "No summary provided." ELSE args.summary,
     outcome |-> IF args.outcome \in Outcomes THEN args.outcome ELSE "unknown"]

-----------------------------------------------------------------------------
(* Who writes which field of the call record *)

RecordFields == {"status", "attempt", "providerCallId", "streamSid", "report",
                 "completedAt", "updatedAt", "scheduledEvent"}

\* The record after component who has assigned the given fields.
Wrote(w, who, fields) ==
    [f \in RecordFields |-> IF f \in fields THEN w[f] \cup {who} ELSE w[f]]

\* CallManager.dial (the record literal of startCall sets the same fields'
\* first values): attempt, status, updatedAt, providerCallId.
DialWrites == {"attempt", "status", "updatedAt", "providerCallId"}

StatusWrites_withReport == {"status", "providerCallId", "updatedAt", "report"}

\* CallManager.handleProviderStatus: status, providerCallId, updatedAt.
StatusWrites == {"status", "providerCallId", "updatedAt"}

\* CallAgentServer.handleVoiceStream, start frame: streamSid, status.
StreamStartWrites == {"streamSid", "status"}

ExecuteWrites_withStatus == {"report", "completedAt", "updatedAt", "status"}

\* reportCallTool.execute of the realtime session: report, completedAt, updatedAt.
ExecuteWrites == {"report", "completedAt", "updatedAt"}

\* CallAgentServer.handleReport: status, completedAt and updatedAt, written
\* only while completedAt is unset.
HandleReportWrites(doneAt) ==
    IF doneAt = 0 THEN {"status", "completedAt", "updatedAt"} ELSE {}

-----------------------------------------------------------------------------
(* Spec: the call record *)

\* The record and its surroundings before startCall.
InitRecord ==
    /\ created = FALSE
    /\ status = Queued
    /\ attempt = 0
    /\ report = NoReport
    /\ completedAt = 0
    /\ pendingRetries = 0
    /\ pendingHangups = 0
    /\ streamStarted = FALSE
    /\ now = 1
    /\ dials = 0
    /\ notified = 0
    /\ reportCalls = 0
    /\ toolResult = "none"
    /\ lastOp = "init"
    /\ lastDelay = 0
    /\ startPc = "idle"
    /\ writers = [f \in RecordFields |-> {}]

\* defaultConfig.retry: initialDelayMs 60000, backoffFactor 2.
DefaultBackoff ==
    /\ initialDelayMs = 60000
    /\ backoffFactor = <<2, 1>>

InitCall ==
    /\ maxAttempts \in 1..MaxAttemptsCfg
    /\ retryStatuses \in RetryConfigs
    /\ DefaultBackoff
    /\ InitRecord

\* The call side held fixed, with defaultConfig.retry.
CallIdle ==
    /\ maxAttempts = 3
    /\ retryStatuses = {Busy, NoAnswer, Failed}
    /\ DefaultBackoff
    /\ InitRecord

DialAttempt_noIncrement(att) == att

\* CallManager.dial, the counter: call.attempt += 1
DialAttempt(att) == att + 1

\* CallManager.dial up to its await: attempt, status, and the count of dials.
\* What follows the await writes providerCallId and updatedAt only.
Dial ==
    /\ attempt' = DialAttempt(attempt)
    /\ status' = Dialing
    /\ dials' = dials + 1

\* CallManager.startCall: allocate the record (queued, attempt 0) and dial once,
\* up to the await of the provider's startCall.
StartCall ==
    /\ ~created
    /\ created' = TRUE
    /\ Dial
    /\ startPc' = "awaiting"
    /\ lastOp' = "startCall"
    /\ writers' = Wrote(writers, "manager", DialWrites)
    /\ OnlyCall
    /\ UNCHANGED <<maxAttempts, retryStatuses, initialDelayMs, backoffFactor,
                   lastDelay, report, completedAt, pendingRetries,
                   pendingHangups, streamStarted, now, notified, reportCalls,
                   toolResult>>

\* Math.pow for a whole exponent
RECURSIVE Pow(_, _)
Pow(base, exponent) == IF exponent = 0 THEN 1 ELSE base * Pow(base, exponent - 1)

\* Math.round of the quotient num / den: the nearest integer, halves upwards.
MathRound(num, den) == (2 * num + den) \div (2 * den)

NextDelay_fromZero(att) ==
    MathRound(initialDelayMs * Pow(backoffFactor[1], att),
              Pow(backoffFactor[2], att))

\* CallManager.nextDelay
NextDelay(att) ==
    MathRound(initialDelayMs * Pow(backoffFactor[1], Max(0, att - 1)),
              Pow(backoffFactor[2], Max(0, att - 1)))

\* CallManager.startCall after the await in dial: the provider's startCall
\* resolved, and startCall returns the record, or it rejected, and the
\* rejection passes through dial and startCall to the caller.
StartCallResume(ok) ==
    /\ startPc = "awaiting"
    /\ startPc' = IF ok THEN "returned" ELSE "threw"
    /\ lastOp' = IF ok THEN "startCallReturned" ELSE "startCallThrew"
    /\ writers' = IF ok THEN Wrote(writers, "manager", {"providerCallId", "updatedAt"})
                  ELSE writers
    /\ OnlyCall
    /\ UNCHANGED <<maxAttempts, retryStatuses, initialDelayMs, backoffFactor,
                   lastDelay, created, status, attempt, report, completedAt,
                   pendingRetries, pendingHangups, streamStarted, now, dials, notified,
                   reportCalls, toolResult>>

\* CallManager.handleProviderStatus for a call id that is in the map: what
\* it does to the record and its timers.
StatusCallback(st) ==
    /\ created
    /\ ShouldRetry(st, attempt) => pendingRetries < MaxPending
    /\ status' = st
    /\ pendingRetries' = IF ShouldRetry(st, attempt)
                         THEN pendingRetries + 1
                         ELSE pendingRetries
    /\ lastDelay' = IF ShouldRetry(st, attempt) THEN NextDelay(attempt) ELSE lastDelay
    /\ lastOp' = "status"
    /\ writers' = Wrote(writers, "manager", StatusWrites)
    /\ UNCHANGED <<maxAttempts, retryStatuses, initialDelayMs, backoffFactor,
                   startPc, created, attempt, report, completedAt,
                   pendingHangups, streamStarted, now, dials, notified, reportCalls,
                   toolResult>>

\* CallManager.handleProviderStatus for a call id that is in the map.
HandleProviderStatus(st) ==
    /\ StatusCallback(st)
    /\ OnlyCall

\* CallManager.handleProviderStatus for an unknown call id: if (!call) return.
HandleProviderStatusUnknown ==
    /\ ~created
    /\ lastOp' = "statusUnknown"
    /\ OnlyCall
    /\ UNCHANGED <<maxAttempts, retryStatuses, initialDelayMs, backoffFactor,
                   lastDelay, startPc, writers, created, status, attempt, report,
                   completedAt, pendingRetries, pendingHangups, streamStarted, now,
                   dials, notified, reportCalls, toolResult>>

\* The retry timer set by handleProviderStatus fires: () => void this.dial(call).
RetryDial ==
    /\ pendingRetries > 0
    /\ pendingRetries' = pendingRetries - 1
    /\ Dial
    /\ lastOp' = "retryDial"
    /\ writers' = Wrote(writers, "manager", DialWrites)
    /\ OnlyCall
    /\ UNCHANGED <<maxAttempts, retryStatuses, initialDelayMs, backoffFactor,
                   lastDelay, startPc, created, report, completedAt,
                   pendingHangups, streamStarted, now, notified, reportCalls,
                   toolResult>>

\* CallAgentServer.handleVoiceStream, a start frame whose callId is known.
StreamStart ==
    /\ created
    /\ status' = InProgress
    /\ streamStarted' = TRUE
    /\ lastOp' = "streamStart"
    /\ writers' = Wrote(writers, "server", StreamStartWrites)
    /\ OnlyCall
    /\ UNCHANGED <<maxAttempts, retryStatuses, initialDelayMs, backoffFactor,
                   lastDelay, startPc, created, attempt, report, completedAt,
                   pendingRetries, pendingHangups, now, dials, notified, reportCalls,
                   toolResult>>

\* CallAgentServer.handleVoiceStream, a start frame for a missing or unknown
\* callId: the socket is closed and nothing else happens.
StreamStartUnknown ==
    /\ ~created
    /\ lastOp' = "streamStartUnknown"
    /\ OnlyCall
    /\ UNCHANGED <<maxAttempts, retryStatuses, initialDelayMs, backoffFactor,
                   lastDelay, startPc, writers, created, status, attempt, report,
                   completedAt, pendingRetries, pendingHangups, streamStarted, now,
                   dials, notified, reportCalls, toolResult>>

\* CallAgentServer.handleReport, the status it leaves: the record is marked
\* completed only while completedAt is still unset.
HandleReportStatus(doneAt, st) == IF doneAt = 0 THEN Completed ELSE st

ReportFirstWins_overwrite(stored) == TRUE

\* reportCallTool.execute, its guard: if (!this.deps.call.report)
ReportFirstWins(stored) == stored = NoReport

\* reportCallTool.execute with onReport -> CallAgentServer.handleReport, which
\* runs synchronously up to its await of notifyUser.
ReportCall(args) ==
    /\ streamStarted
    /\ reportCalls < MaxReports
    /\ reportCalls' = reportCalls + 1
    /\ now' = now + 1
    /\ toolResult' = "ok"
    /\ lastOp' = "reportCall"
    /\ OnlyCall
    /\ IF ReportFirstWins(report)
       THEN /\ report' = NormalizeReport(args)
            /\ completedAt' = now
            /\ notified' = notified + 1
            /\ status' = HandleReportStatus(completedAt', status)
            /\ pendingHangups' = pendingHangups + 1
            /\ writers' = Wrote(Wrote(writers, "session", ExecuteWrites),
                                "server", HandleReportWrites(completedAt'))
       ELSE UNCHANGED <<report, completedAt, notified, status, pendingHangups, writers>>
    /\ UNCHANGED <<maxAttempts, retryStatuses, initialDelayMs, backoffFactor,
                   lastDelay, startPc, created, attempt, pendingRetries,
                   streamStarted, dials>>

\* What the provider does with a hangup: it has no endCall, its endCall
\* resolves, or its endCall rejects.
HangupOutcomes == {"noEndCall", "hungUp", "hangupFailed"}

EndCallOp_rethrows(outcome) ==
    CASE outcome = "noEndCall"    -> "endCallNoHangup"
      [] outcome = "hungUp"       -> "endCallHungUp"
      [] outcome = "hangupFailed" -> "endCallThrew"

\* CallManager.endCall, how it ends: the catch block swallows a rejected
\* hangup, so the promise resolves on every path.
EndCallOp(outcome) ==
    CASE outcome = "noEndCall"    -> "endCallNoHangup"
      [] outcome = "hungUp"       -> "endCallHungUp"
      [] outcome = "hangupFailed" -> "endCallIgnoredError"

\* The hangup timer set by handleReport fires: CallManager.endCall, which
\* asks the provider to hang up and swallows its errors.
EndCall(outcome) ==
    /\ pendingHangups > 0
    /\ pendingHangups' = pendingHangups - 1
    /\ lastOp' = EndCallOp(outcome)
    /\ OnlyCall
    /\ UNCHANGED <<maxAttempts, retryStatuses, initialDelayMs, backoffFactor,
                   lastDelay, startPc, writers, created, status, attempt, report,
                   completedAt, pendingRetries, streamStarted, now, dials, notified,
                   reportCalls, toolResult>>

\* CallManager.endCall called for a call that is in the map, by any holder
\* of the manager.
EndCallKnown(outcome) ==
    /\ created
    /\ lastOp' = EndCallOp(outcome)
    /\ OnlyCall
    /\ UNCHANGED <<maxAttempts, retryStatuses, initialDelayMs, backoffFactor,
                   lastDelay, startPc, writers, created, status, attempt, report,
                   completedAt, pendingRetries, pendingHangups, streamStarted, now,
                   dials, notified, reportCalls, toolResult>>

\* CallManager.endCall for an id that is not in the map: if (!call) return.
EndCallUnknown ==
    /\ lastOp' = "endCallUnknown"
    /\ OnlyCall
    /\ UNCHANGED <<maxAttempts, retryStatuses, initialDelayMs, backoffFactor,
                   lastDelay, startPc, writers, created, status, attempt, report,
                   completedAt, pendingRetries, pendingHangups, streamStarted, now,
                   dials, notified, reportCalls, toolResult>>

\* ---- the call manager on its own, under any retry configuration

NoAnswerSpaced == <<"N","o"," ","A","n","s","w","e","r">>

\* Statuses as a caller of handleProviderStatus may spell them.
SpelledStatuses ==
    ProviderStatuses \cup {NoAnswerDash, NoAnswerSpaced, BusyUpper}

\* config.retry as a deployment may set it: the default with one more
\* attempt, the README's spellings with a fractional factor, a shrinking
\* backoff, a constant backoff, and no retry at all.
RetryConfig(attempts, statuses, delayMs, factor) ==
    [maxAttempts |-> attempts, retryStatuses |-> statuses,
     initialDelayMs |-> delayMs, backoffFactor |-> factor]

DialConfigs ==
    { RetryConfig(4, {Busy, NoAnswer, Failed}, 60000, <<2, 1>>),
      RetryConfig(3, {BusyUpper, NoAnswerDash, Failed}, 1, <<3, 2>>),
      RetryConfig(3, {NoAnswerSpaced}, 1000, <<1, 2>>),
      RetryConfig(2, {Busy, NoAnswer}, 60000, <<1, 1>>),
      RetryConfig(1, {Busy}, 60000, <<2, 1>>) }

InitDial ==
    /\ \E cfg \in DialConfigs :
          /\ maxAttempts = cfg.maxAttempts
          /\ retryStatuses = cfg.retryStatuses
          /\ initialDelayMs = cfg.initialDelayMs
          /\ backoffFactor = cfg.backoffFactor
    /\ InitRecord

NextDial ==
    \/ StartCall
    \/ \E ok \in BOOLEAN : StartCallResume(ok)
    \/ \E st \in SpelledStatuses : HandleProviderStatus(st)
    \/ HandleProviderStatusUnknown
    \/ RetryDial
    \/ \E outcome \in HangupOutcomes : EndCallKnown(outcome)
    \/ EndCallUnknown

-----------------------------------------------------------------------------
(* SpecSdk: the agents-SDK realtime session (openai-realtime.ts, first class) *)

\* The fields as the class initialises them.
InitSession ==
    /\ session = FALSE
    /\ transport = "none"
    /\ closed = FALSE
    /\ greetingSent = FALSE
    /\ updateSent = FALSE
    /\ awaitingSessionUpdated = FALSE
    /\ greetingTimer = FALSE
    /\ updatePc = "idle"
    /\ sent = <<>>
    /\ confirmed = FALSE
    /\ timedOut = FALSE
    /\ sdkOp = "new"
    /\ sessionCloses = 0
    /\ modelAudio = <<>>
    /\ streamOut = <<>>

InitSdk ==
    /\ apiKey \in BOOLEAN
    /\ InitSession

\* The session side held fixed.
SdkIdle ==
    /\ apiKey = TRUE
    /\ InitSession

\* Transport events reach the handlers while the socket is up, and the ones
\* already in flight still do while it is closing.
Delivering == transport \in {"connected", "closing"}

ConnectNoKey_connects ==
    /\ sdkOp = "new"
    /\ ~apiKey
    /\ sdkOp' = "connectNoKey"
    /\ OnlySdk
    /\ session' = TRUE
    /\ transport' = "connecting"
    /\ UNCHANGED <<apiKey, sessionCloses, modelAudio, streamOut, closed, greetingSent,
                   updateSent, awaitingSessionUpdated, greetingTimer, updatePc, sent,
                   confirmed, timedOut>>

\* connect() without an API key: log and return.
ConnectNoKey ==
    /\ sdkOp = "new"
    /\ ~apiKey
    /\ sdkOp' = "connectNoKey"
    /\ OnlySdk
    /\ UNCHANGED <<apiKey, sessionCloses, modelAudio, streamOut,
                   session, transport, closed, greetingSent, updateSent,
                   awaitingSessionUpdated, greetingTimer, updatePc, sent, confirmed,
                   timedOut>>

\* connect() -> start() up to its await of session.connect(): the
\* RealtimeSession is built and its handlers attached.  The server calls
\* connect() once, right after constructing the session.
Connect ==
    /\ sdkOp = "new"
    /\ apiKey
    /\ session' = TRUE
    /\ transport' = "connecting"
    /\ sdkOp' = "connect"
    /\ OnlySdk
    /\ UNCHANGED <<apiKey, sessionCloses, modelAudio, streamOut,
                   closed, greetingSent, updateSent, awaitingSessionUpdated,
                   greetingTimer, updatePc, sent, confirmed, timedOut>>

\* session.connect() resolves.
ConnectOk ==
    /\ transport = "connecting"
    /\ transport' = "connected"
    /\ sdkOp' = "connectOk"
    /\ OnlySdk
    /\ UNCHANGED <<apiKey, sessionCloses, modelAudio, streamOut,
                   session, closed, greetingSent, updateSent,
                   awaitingSessionUpdated, greetingTimer, updatePc, sent, confirmed,
                   timedOut>>

\* close(), its body: if (this.closed) return; this.closed = true; the
\* greeting timer is cleared and the SDK session, if there is one, closed.
CloseBody ==
    IF closed
    THEN UNCHANGED <<closed, greetingTimer, sessionCloses>>
    ELSE /\ closed' = TRUE
         /\ greetingTimer' = FALSE
         /\ sessionCloses' = IF session THEN sessionCloses + 1 ELSE sessionCloses

\* What this.session?.close() does to the socket: an open one starts closing,
\* one still connecting is aborted (its connect() promise is still pending).
SocketAfterClose ==
    IF closed \/ ~session
    THEN transport
    ELSE CASE transport = "connected" -> "closing"
           [] transport = "connecting" -> "aborting"
           [] OTHER -> transport

\* close() called by the server (stop frame, server stop), after connect().
Close ==
    /\ sdkOp # "new"
    /\ sdkOp' = "close"
    /\ OnlySdk
    /\ CloseBody
    /\ transport' = SocketAfterClose
    /\ UNCHANGED <<apiKey, modelAudio, streamOut, session, greetingSent, updateSent,
                   awaitingSessionUpdated, updatePc, sent, confirmed, timedOut>>

\* session.connect() rejects: the catch of connect() logs and calls close().
ConnectFail ==
    /\ transport \in {"connecting", "aborting"}
    /\ CloseBody
    /\ transport' = "closed"
    /\ sdkOp' = "connectFail"
    /\ OnlySdk
    /\ UNCHANGED <<apiKey, modelAudio, streamOut, session, greetingSent, updateSent,
                   awaitingSessionUpdated, updatePc, sent, confirmed, timedOut>>

\* The socket finishes closing; nothing is delivered afterwards.
TransportClosed ==
    /\ transport = "closing"
    /\ transport' = "closed"
    /\ sdkOp' = "transportClosed"
    /\ OnlySdk
    /\ UNCHANGED <<apiKey, sessionCloses, modelAudio, streamOut,
                   session, closed, greetingSent, updateSent,
                   awaitingSessionUpdated, greetingTimer, updatePc, sent, confirmed,
                   timedOut>>

SendGreeting_noMark ==
    IF greetingSent \/ ~session
    THEN UNCHANGED <<greetingSent, greetingTimer, sent>>
    ELSE /\ greetingSent' = greetingSent
         /\ greetingTimer' = FALSE
         /\ sent' = Append(sent, "response.create")

\* sendGreeting(): once only; marks greetingSent, clears the timer and sends
\* the opening response.create.
SendGreeting ==
    IF greetingSent \/ ~session
    THEN UNCHANGED <<greetingSent, greetingTimer, sent>>
    ELSE /\ greetingSent' = TRUE
         /\ greetingTimer' = FALSE
         /\ sent' = Append(sent, "response.create")

\* handleTransportEvent, session.created: sendSessionUpdate() runs up to its
\* await of getInitialSessionConfig().
SessionCreated ==
    /\ Delivering
    /\ sdkOp' = "sessionCreated"
    /\ OnlySdk
    /\ IF updateSent \/ ~session
       THEN UNCHANGED <<updateSent, awaitingSessionUpdated, updatePc>>
       ELSE /\ updateSent' = TRUE
            /\ awaitingSessionUpdated' = TRUE
            /\ updatePc' = "suspended"
    /\ UNCHANGED <<apiKey, sessionCloses, modelAudio, streamOut,
                   session, transport, closed, greetingSent, greetingTimer,
                   sent, confirmed, timedOut>>

ArmGreetingTimeout_never == FALSE

\* armGreetingTimeout(): the timer is armed (an earlier one is cleared first).
ArmGreetingTimeout == TRUE

\* sendSessionUpdate() after its await: the session.update goes out and the
\* greeting timeout is armed.
SendSessionUpdateResume ==
    /\ updatePc = "suspended"
    /\ updatePc' = "done"
    /\ sent' = Append(sent, "session.update")
    /\ greetingTimer' = ArmGreetingTimeout
    /\ sdkOp' = "sendSessionUpdate"
    /\ OnlySdk
    /\ UNCHANGED <<apiKey, sessionCloses, modelAudio, streamOut,
                   session, transport, closed, greetingSent, updateSent,
                   awaitingSessionUpdated, confirmed, timedOut>>

\* handleTransportEvent, session.updated: ignored unless one is awaited;
\* otherwise the greeting is sent.
SessionUpdated ==
    /\ Delivering
    /\ sdkOp' = "sessionUpdated"
    /\ OnlySdk
    /\ confirmed' = (confirmed \/ updatePc = "done")
    /\ IF ~awaitingSessionUpdated
       THEN UNCHANGED <<awaitingSessionUpdated, greetingSent, greetingTimer, sent>>
       ELSE /\ awaitingSessionUpdated' = FALSE
            /\ SendGreeting
    /\ UNCHANGED <<apiKey, sessionCloses, modelAudio, streamOut,
                   session, transport, closed, updateSent, updatePc, timedOut>>

\* The greeting timeout fires (GREETING_TIMEOUT_MS after it was armed).
GreetingTimeout ==
    /\ greetingTimer
    /\ timedOut' = TRUE
    /\ sdkOp' = "greetingTimeout"
    /\ OnlySdk
    /\ IF greetingSent
       THEN /\ greetingTimer' = FALSE
            /\ UNCHANGED <<greetingSent, sent>>
       ELSE SendGreeting
    /\ UNCHANGED <<apiKey, sessionCloses, modelAudio, streamOut,
                   session, transport, closed, updateSent,
                   awaitingSessionUpdated, updatePc, confirmed>>

\* What the model sends about audio: output deltas, numbered in the order
\* they arrive, and the signals that the callee started to speak.
Delta(n) == [kind |-> "delta", seq |-> n]
SpeechSignal(k) == [kind |-> k, seq |-> 0]
IsDelta(e) == e.kind = "delta"
DeltaCount(events) == Len(SelectSeq(events, IsDelta))

\* Frames the server writes to the telephony media socket.
MediaFrame(n) == [event |-> "media", seq |-> n]
ClearFrame == [event |-> "clear", seq |-> 0]

OnSpeechStarted_silent(out) == out

\* deps.onSpeechStarted (CallAgentServer): a clear frame for the stream.
OnSpeechStarted(out) == Append(out, ClearFrame)

OnAudioDelta_newestFirst(out, n) == <<MediaFrame(n)>> \o out

\* deps.onAudioDelta (CallAgentServer): one media frame carrying the delta.
OnAudioDelta(out, n) == Append(out, MediaFrame(n))

\* handleTransportEvent, input_audio_buffer.speech_started, and the session's
\* audio_interrupted event: both call deps.onSpeechStarted at once.
SpeechStarted(signal) ==
    /\ Delivering
    /\ Len(modelAudio) < MaxModelAudio
    /\ modelAudio' = Append(modelAudio, SpeechSignal(signal))
    /\ streamOut' = OnSpeechStarted(streamOut)
    /\ sdkOp' = "speechStarted"
    /\ OnlySdk
    /\ UNCHANGED <<apiKey, sessionCloses, session, transport, closed, greetingSent,
                   updateSent, awaitingSessionUpdated, greetingTimer, updatePc, sent,
                   confirmed, timedOut>>

\* handleAudio: the delta is encoded (base64, or mu-law from 24 kHz PCM; the
\* transcode accepts every ArrayBuffer) and handed to deps.onAudioDelta.
HandleAudio ==
    /\ Delivering
    /\ Len(modelAudio) < MaxModelAudio
    /\ modelAudio' = Append(modelAudio, Delta(DeltaCount(modelAudio) + 1))
    /\ streamOut' = OnAudioDelta(streamOut, DeltaCount(modelAudio) + 1)
    /\ sdkOp' = "audioDelta"
    /\ OnlySdk
    /\ UNCHANGED <<apiKey, sessionCloses, session, transport, closed, greetingSent,
                   updateSent, awaitingSessionUpdated, greetingTimer, updatePc, sent,
                   confirmed, timedOut>>

\* sendAudioInput, its guards: closed, no session, or a transport that is
\* not connected drop the audio.
AudioAccepted == ~closed /\ session /\ transport = "connected"

\* sendAudioInput(base64), called by the server for a media frame of the
\* stream: a payload that does not decode is logged inside the try.
SendAudioInput(decodes) ==
    /\ sdkOp # "new"
    /\ Len(sent) < MaxSdkSent
    /\ sent' = IF AudioAccepted /\ decodes
               THEN Append(sent, "input_audio_buffer.append")
               ELSE sent
    /\ sdkOp' = "audioIn"
    /\ OnlySdk
    /\ UNCHANGED <<apiKey, sessionCloses, modelAudio, streamOut, session, transport,
                   closed, greetingSent, updateSent, awaitingSessionUpdated,
                   greetingTimer, updatePc, confirmed, timedOut>>

NextSdk ==
    \/ ConnectNoKey
    \/ Connect
    \/ ConnectOk
    \/ ConnectFail
    \/ Close
    \/ TransportClosed
    \/ \E signal \in {"speech_started", "audio_interrupted"} : SpeechStarted(signal)
    \/ HandleAudio
    \/ \E decodes \in BOOLEAN : SendAudioInput(decodes)
    \/ SessionCreated
    \/ SendSessionUpdateResume
    \/ SessionUpdated
    \/ GreetingTimeout

-----------------------------------------------------------------------------
(* SpecWs: the raw-websocket realtime session (openai-realtime.ts, second    *)
(* class) with the scheduling server's onScheduled callback                 *)

InitSocket ==
    /\ ws = "none"
    /\ wsClosed = FALSE
    /\ responsePending = FALSE
    /\ wsSent = <<>>
    /\ scheduledEvent = FALSE
    /\ toolCalls = <<>>
    /\ wsOp = "new"
    /\ wsCloses = 0
    /\ wsModelAudio = <<>>
    /\ wsStreamOut = <<>>

InitWs ==
    /\ wsKey \in BOOLEAN
    /\ InitSocket

\* The websocket side held fixed.
WsIdle ==
    /\ wsKey = TRUE
    /\ InitSocket

\* The call as handleVoiceStream leaves it when it constructs the session:
\* dialled once, stream started, status in_progress.
CallInProgress ==
    /\ maxAttempts = 3
    /\ retryStatuses = {Busy, NoAnswer, Failed}
    /\ DefaultBackoff
    /\ lastDelay = 0
    /\ startPc = "returned"
    /\ created = TRUE
    /\ status = InProgress
    /\ attempt = 1
    /\ report = NoReport
    /\ completedAt = 0
    /\ pendingRetries = 0
    /\ pendingHangups = 0
    /\ streamStarted = TRUE
    /\ now = 1
    /\ dials = 1
    /\ notified = 0
    /\ reportCalls = 0
    /\ toolResult = "none"
    /\ lastOp = "streamStart"
    /\ writers = Wrote(Wrote([f \in RecordFields |-> {}], "manager", DialWrites),
                       "server", StreamStartWrites)

Msg(t, r, id, ok) == [type |-> t, response |-> r, callId |-> id, ok |-> ok]

SessionUpdateMsg == Msg("session.update", "-", "-", TRUE)
GreetingMsg      == Msg("response.create", "greeting", "-", TRUE)
VadResponseMsg   == Msg("response.create", "audio", "-", TRUE)
NextTurnMsg      == Msg("response.create", "-", "-", TRUE)
ToolOutputMsg(id, ok) == Msg("conversation.item.create", "function_call_output", id, ok)
AudioAppendMsg   == Msg("input_audio_buffer.append", "-", "-", TRUE)

ToolNames == {"calendar_find_slots", "calendar_check_slot", "calendar_create_event",
              "lookup_weather"}
ToolCallIds == {"call_1", "call_2"}

\* send(): nothing is written once this.closed is set.
WsSend(isClosed, out, msgs) == IF isClosed THEN out ELSE out \o msgs

\* Room for what a handler writes (the bound of the model on wsSent).
WsRoom(n) == wsClosed \/ Len(wsSent) + n <= MaxWsSent

\* Messages of the model are handled while the socket is open, and those
\* already in flight while it is closing.
WsDelivering == ws \in {"open", "closing"}

\* connect() without an API key: log and return.
WsConnectNoKey ==
    /\ wsOp = "new"
    /\ ~wsKey
    /\ wsOp' = "connectNoKey"
    /\ UNCHANGED <<wsKey, wsCloses, wsModelAudio, wsStreamOut,
                   ws, wsClosed, responsePending, wsSent, scheduledEvent,
                   toolCalls>>
    /\ UNCHANGED <<callVars, sdkVars, calVars, srvVars, codecVars>>

\* connect(): the socket is created and its handlers attached.
WsConnect ==
    /\ ws = "none"
    /\ wsKey
    /\ ws' = "connecting"
    /\ wsOp' = "connect"
    /\ UNCHANGED <<wsKey, wsCloses, wsModelAudio, wsStreamOut,
                   wsClosed, responsePending, wsSent, scheduledEvent,
                   toolCalls>>
    /\ UNCHANGED <<callVars, sdkVars, calVars, srvVars, codecVars>>

\* ws "open" -> sendSessionUpdate(): the session.update and, right after it,
\* the greeting response.create; responsePending is set.
WsOpen ==
    /\ ws = "connecting"
    /\ WsRoom(2)
    /\ ws' = "open"
    /\ wsSent' = WsSend(wsClosed, wsSent, <<SessionUpdateMsg, GreetingMsg>>)
    /\ responsePending' = TRUE
    /\ wsOp' = "open"
    /\ UNCHANGED <<wsKey, wsCloses, wsModelAudio, wsStreamOut,
                   wsClosed, scheduledEvent, toolCalls>>
    /\ UNCHANGED <<callVars, sdkVars, calVars, srvVars, codecVars>>

WsCloseBody_noGuard ==
    /\ wsClosed' = TRUE
    /\ wsCloses' = IF ws # "none" THEN wsCloses + 1 ELSE wsCloses
    /\ ws' = CASE ws = "open" -> "closing"
               [] ws = "connecting" -> "aborting"
               [] OTHER -> ws

\* close(): if (this.closed) return; this.ws?.close(); this.closed = true.
\* An open socket starts closing, one still connecting is aborted.
WsCloseBody ==
    IF wsClosed
    THEN UNCHANGED <<ws, wsClosed, wsCloses>>
    ELSE /\ wsClosed' = TRUE
         /\ wsCloses' = IF ws # "none" THEN wsCloses + 1 ELSE wsCloses
         /\ ws' = CASE ws = "open" -> "closing"
                    [] ws = "connecting" -> "aborting"
                    [] OTHER -> ws

\* close() called by the server (stop frame, server stop), after connect().
WsClose ==
    /\ wsOp # "new"
    /\ wsOp' = IF wsClosed THEN "closeAgain" ELSE "close"
    /\ WsCloseBody
    /\ UNCHANGED <<wsKey, wsModelAudio, wsStreamOut, responsePending, wsSent,
                   scheduledEvent, toolCalls>>
    /\ UNCHANGED <<callVars, sdkVars, calVars, srvVars, codecVars>>

\* ws "error" or "unexpected-response": log, then close().
WsError ==
    /\ ws \in {"connecting", "open", "closing", "aborting"}
    /\ wsOp' = IF wsClosed THEN "errorAgain" ELSE "error"
    /\ WsCloseBody
    /\ UNCHANGED <<wsKey, wsModelAudio, wsStreamOut, responsePending, wsSent,
                   scheduledEvent, toolCalls>>
    /\ UNCHANGED <<callVars, sdkVars, calVars, srvVars, codecVars>>

\* ws "close": the socket is gone; this.closed = true.
WsClosedEvent ==
    /\ ws \in {"open", "closing", "aborting"}
    /\ ws' = "closed"
    /\ wsClosed' = TRUE
    /\ wsOp' = "closed"
    /\ UNCHANGED <<wsKey, wsCloses, wsModelAudio, wsStreamOut,
                   responsePending, wsSent, scheduledEvent, toolCalls>>
    /\ UNCHANGED <<callVars, sdkVars, calVars, srvVars, codecVars>>

\* handleMessage, input_audio_buffer.speech_stopped: a response is requested
\* unless one is pending.
WsSpeechStopped ==
    /\ WsDelivering
    /\ WsRoom(1)
    /\ wsOp' = "speechStopped"
    /\ IF responsePending
       THEN UNCHANGED <<responsePending, wsSent>>
       ELSE /\ responsePending' = TRUE
            /\ wsSent' = WsSend(wsClosed, wsSent, <<VadResponseMsg>>)
    /\ UNCHANGED <<wsKey, wsCloses, wsModelAudio, wsStreamOut,
                   ws, wsClosed, scheduledEvent, toolCalls>>
    /\ UNCHANGED <<callVars, sdkVars, calVars, srvVars, codecVars>>

\* handleMessage, response.completed | response.done | *.audio.done.
WsResponseDone ==
    /\ WsDelivering
    /\ responsePending' = FALSE
    /\ wsOp' = "responseDone"
    /\ UNCHANGED <<wsKey, wsCloses, wsModelAudio, wsStreamOut,
                   ws, wsClosed, wsSent, scheduledEvent, toolCalls>>
    /\ UNCHANGED <<callVars, sdkVars, calVars, srvVars, codecVars>>

\* handleMessage, text that is not JSON, an error message or a type it does
\* not know: nothing changes.
WsIgnored ==
    /\ WsDelivering
    /\ wsOp' = "ignored"
    /\ UNCHANGED <<wsKey, wsCloses, wsModelAudio, wsStreamOut,
                   ws, wsClosed, responsePending, wsSent, scheduledEvent,
                   toolCalls>>
    /\ UNCHANGED <<callVars, sdkVars, calVars, srvVars, codecVars>>

\* handleMessage, input_audio_buffer.speech_started: deps.onSpeechStarted.
WsSpeechStarted ==
    /\ WsDelivering
    /\ Len(wsModelAudio) < MaxModelAudio
    /\ wsModelAudio' = Append(wsModelAudio, SpeechSignal("speech_started"))
    /\ wsStreamOut' = OnSpeechStarted(wsStreamOut)
    /\ wsOp' = "speechStarted"
    /\ UNCHANGED <<wsKey, wsCloses, ws, wsClosed, responsePending, wsSent,
                   scheduledEvent, toolCalls>>
    /\ UNCHANGED <<callVars, sdkVars, calVars, srvVars, codecVars>>

\* handleMessage, response.output_audio.delta | response.audio.delta with a
\* delta: passed through or transcoded (the transcode accepts every base64
\* text), then handed to deps.onAudioDelta.
WsAudioDelta ==
    /\ WsDelivering
    /\ Len(wsModelAudio) < MaxModelAudio
    /\ wsModelAudio' = Append(wsModelAudio, Delta(DeltaCount(wsModelAudio) + 1))
    /\ wsStreamOut' = OnAudioDelta(wsStreamOut, DeltaCount(wsModelAudio) + 1)
    /\ wsOp' = "audioDelta"
    /\ UNCHANGED <<wsKey, wsCloses, ws, wsClosed, responsePending, wsSent,
                   scheduledEvent, toolCalls>>
    /\ UNCHANGED <<callVars, sdkVars, calVars, srvVars, codecVars>>

\* WebSocket.send of the ws package throws "WebSocket is not open:
\* readyState 0 (CONNECTING)" while the socket is still connecting.
WsSendThrows(isClosed, socket) == ~isClosed /\ socket = "connecting"

\* sendAudioInput(base64) -> send(): called by the server for a media frame
\* of the stream, whatever the state of the model socket.
WsSendAudioInput ==
    /\ wsOp # "new"
    /\ WsRoom(1)
    /\ IF WsSendThrows(wsClosed, ws)
       THEN /\ wsOp' = "audioInThrew"
            /\ UNCHANGED wsSent
       ELSE /\ wsOp' = "audioIn"
            /\ wsSent' = IF ws = "none"
                         THEN wsSent
                         ELSE WsSend(wsClosed, wsSent, <<AudioAppendMsg>>)
    /\ UNCHANGED <<wsKey, wsCloses, wsModelAudio, wsStreamOut, ws, wsClosed,
                   responsePending, scheduledEvent, toolCalls>>
    /\ UNCHANGED <<callVars, sdkVars, calVars, srvVars, codecVars>>

\* handleToolCall, its two sends: the function_call_output keyed by the
\* call id, then the response.create that asks for the next turn.
ToolReplies(id, ok) == <<ToolOutputMsg(id, ok), NextTurnMsg>>

\* The tools handleToolCall dispatches on.
CalendarTools == {"calendar_find_slots", "calendar_check_slot", "calendar_create_event"}

\* What msg.arguments can be: the text of a JSON object, text that is not
\* JSON, or JSON text of a value that is no object ("null").
ArgKinds == {"object", "unparseable", "null"}

\* handleToolCall, its argument parsing: JSON.parse in a try whose catch
\* substitutes {}.  A text that parses keeps its value, object or not.
ParsedArgs(kind) == IF kind = "unparseable" THEN "empty" ELSE kind

\* handleToolCall, the defaults it fills in before its try block:
\* !args.calendarIds is evaluated for every tool name and throws a TypeError
\* when args is null.
DefaultsThrow(args) == args = "null"

\* What a tool can answer.  The calendar engine rejects the empty request
\* (no window, no start); an unknown name gets {ok: false}; for a calendar
\* tool with real arguments the answer depends on the request and the
\* stored slots.
ToolOutcomes(name, args) ==
    IF name \in CalendarTools /\ args = "object"
    THEN BOOLEAN
    ELSE {FALSE}

\* handleMessage, response.function_call_arguments.done -> handleToolCall.
\* A created event with all its fields is stored on the call and onScheduled
\* -> CallAgentServer.handleScheduled marks the call completed and sets the
\* hangup timer.
\* When the defaults throw, nothing is sent: the rejection leaves handleMessage,
\* whose promise nobody awaits.
WsToolCall(name, id, kind, ok, complete) ==
    /\ WsDelivering
    /\ WsRoom(2)
    /\ Len(toolCalls) < MaxToolCalls
    /\ ok \in ToolOutcomes(name, ParsedArgs(kind))
    /\ complete => (name = "calendar_create_event" /\ ok)
    /\ toolCalls' = Append(toolCalls,
                           [callId |-> id,
                            live |-> ~wsClosed,
                            mustFail |-> (kind = "unparseable" \/ name \notin CalendarTools),
                            threw |-> DefaultsThrow(ParsedArgs(kind))])
    /\ wsSent' = IF DefaultsThrow(ParsedArgs(kind))
                 THEN wsSent
                 ELSE WsSend(wsClosed, wsSent, ToolReplies(id, ok))
    /\ wsOp' = IF DefaultsThrow(ParsedArgs(kind)) THEN "toolCallThrew" ELSE "toolCall"
    /\ IF complete
       THEN /\ scheduledEvent' = TRUE
            /\ status' = Completed
            /\ pendingHangups' = pendingHangups + 1
            /\ lastOp' = "scheduled"
            /\ writers' = Wrote(Wrote(writers, "session", {"scheduledEvent"}),
                                "server", {"status"})
       ELSE UNCHANGED <<scheduledEvent, status, pendingHangups, lastOp, writers>>
    /\ UNCHANGED <<wsKey, wsCloses, wsModelAudio, wsStreamOut,
                   ws, wsClosed, responsePending>>
    /\ UNCHANGED <<maxAttempts, retryStatuses, initialDelayMs, backoffFactor,
                   lastDelay, startPc, created, attempt, report, completedAt,
                   pendingRetries, streamStarted, now, dials, notified, reportCalls,
                   toolResult>>
    /\ UNCHANGED <<sdkVars, calVars, srvVars, codecVars>>

NextWs ==
    \/ WsConnectNoKey
    \/ WsConnect
    \/ WsOpen
    \/ WsClose
    \/ WsError
    \/ WsClosedEvent
    \/ WsSpeechStopped
    \/ WsResponseDone
    \/ WsIgnored
    \/ \E name \in ToolNames, id \in ToolCallIds, kind \in ArgKinds,
          ok \in BOOLEAN, complete \in BOOLEAN :
           WsToolCall(name, id, kind, ok, complete)
    \/ \E outcome \in HangupOutcomes : EndCall(outcome)

-----------------------------------------------------------------------------
(* SpecCal: the slot engine (calendar-engine.ts).  Instants are counted in  *)
(* milliseconds from 1970-01-01T00:00Z, a Thursday.                         *)

MINUTE_MS == 60000
DayMs == 1440 * MINUTE_MS
EpochWeekday == 4

\* The instant of hour:minute:second UTC on the given day after the epoch.
At(day, hour, minute, second) ==
    day * DayMs + (hour * 60 + minute) * MINUTE_MS + second * 1000

\* An optional value: <<>> while undefined, <<x>> when present.
None == <<>>
Some(x) == <<x>>
OrElse(opt, default) == IF opt = None THEN default ELSE opt[1]

\* A date-time text: either ISO text naming an instant, or text that
\* Date.parse turns into NaN.  ISO text has a date part and a time part.
Instant(ms) == [iso |-> TRUE, date |-> ms \div DayMs, time |-> ms % DayMs]
BadTime == [iso |-> FALSE, date |-> 0, time |-> 0]

\* Number.isFinite(Date.parse(text))
Parses(text) == text.iso
DateParse(text) == text.date * DayMs + text.time

\* new Date(ms).toISOString()
ToISOString(ms) == [iso |-> TRUE, date |-> ms \div DayMs, time |-> ms % DayMs]

\* A working-hours bound as written in the request: "HH:MM" text, or text
\* the pattern of parseWorkingMinutes does not match.
HourMinute(h, m) == [wellFormed |-> TRUE, hour |-> h, minute |-> m]
BadHourMinute == [wellFormed |-> FALSE, hour |-> 0, minute |-> 0]

ParseWorkingMinutes(value) ==
    IF ~value.wellFormed THEN None
    ELSE IF value.hour < 0 \/ value.hour > 23 \/ value.minute < 0 \/ value.minute > 59
         THEN None
         ELSE Some(value.hour * 60 + value.minute)

\* The zones Intl.DateTimeFormat resolves, with their offsets from UTC in
\* minutes; any other name makes the constructor throw.
DefaultTimezone == "UTC"
UtcOffset(timeZone) ==
    CASE timeZone = "UTC" -> Some(0)
      [] timeZone = "Europe/Berlin" -> Some(60)
      [] OTHER -> None

\* getZonedParts: year, month and day are kept as one day number; the hour
\* at local midnight is printed as the platform's hour cycle prints it.
GetZonedParts(ms, timeZone) ==
    IF UtcOffset(timeZone) = None THEN None
    ELSE LET local == ms + UtcOffset(timeZone)[1] * MINUTE_MS
             day == local \div DayMs
             minuteOfDay == (local % DayMs) \div MINUTE_MS
             hour == minuteOfDay \div 60
         IN  Some([day |-> day,
                   hour |-> IF hour = 0 THEN midnightHour ELSE hour,
                   minute |-> minuteOfDay % 60,
                   weekday |-> (EpochWeekday + day) % 7])

IsWithinWorkingHours(slotStartMs, slotEndMs, workingHours, timezone) ==
    IF workingHours = None THEN TRUE
    ELSE LET wh == workingHours[1]
             startParts == GetZonedParts(slotStartMs, timezone)
             endParts == GetZonedParts(slotEndMs, timezone)
         IN  IF startParts = None \/ endParts = None THEN TRUE
             ELSE IF startParts[1].day # endParts[1].day THEN FALSE
             ELSE IF startParts[1].weekday \notin wh.days THEN FALSE
             ELSE LET startMinutes == startParts[1].hour * 60 + startParts[1].minute
                      endMinutes == endParts[1].hour * 60 + endParts[1].minute
                      workingStart == ParseWorkingMinutes(wh.start)
                      workingEnd == ParseWorkingMinutes(wh.end)
                  IN  IF workingStart = None \/ workingEnd = None THEN TRUE
                      ELSE startMinutes >= workingStart[1] /\ endMinutes <= workingEnd[1]

overlaps_closed(aStart, aEnd, bStart, bEnd) == aStart <= bEnd /\ bStart <= aEnd

overlaps(aStart, aEnd, bStart, bEnd) == aStart < bEnd /\ bStart < aEnd

\* normalizeSlot keeps a stored slot when both ends parse and end > start.
IsNormalSlot(slot) ==
    /\ Parses(slot.start)
    /\ Parses(slot.end)
    /\ DateParse(slot.end) > DateParse(slot.start)

NormalizeSlot(slot) ==
    [startMs |-> DateParse(slot.start), endMs |-> DateParse(slot.end),
     start |-> slot.start, end |-> slot.end]

RECURSIVE InsertByStart(_, _)
InsertByStart(sorted, slot) ==
    IF sorted = <<>> THEN <<slot>>
    ELSE IF slot.startMs < Head(sorted).startMs THEN <<slot>> \o sorted
    ELSE <<Head(sorted)>> \o InsertByStart(Tail(sorted), slot)

RECURSIVE SortByStart(_)
SortByStart(slots) ==
    IF slots = <<>> THEN <<>>
    ELSE InsertByStart(SortByStart(SubSeq(slots, 1, Len(slots) - 1)), slots[Len(slots)])

NormalizeAll(raw) == [i \in 1..Len(raw) |-> NormalizeSlot(raw[i])]

GetOccupiedSlots(raw) == SortByStart(NormalizeAll(SelectSeq(raw, IsNormalSlot)))

HasConflict_noBuffers(occupied, slotStartMs, slotEndMs, bufferBeforeMinutes, bufferAfterMinutes) ==
    \E i \in 1..Len(occupied) :
        overlaps(slotStartMs, slotEndMs, occupied[i].startMs, occupied[i].endMs)

HasConflict(occupied, slotStartMs, slotEndMs, bufferBeforeMinutes, bufferAfterMinutes) ==
    LET bufferedStart == slotStartMs - OrElse(bufferBeforeMinutes, 0) * MINUTE_MS
        bufferedEnd == slotEndMs + OrElse(bufferAfterMinutes, 0) * MINUTE_MS
    IN  \E i \in 1..Len(occupied) :
            overlaps(bufferedStart, bufferedEnd, occupied[i].startMs, occupied[i].endMs)

\* req.timezone || this.defaultTimezone()
RequestTimezone(req) == IF req.timezone = "" THEN DefaultTimezone ELSE req.timezone

\* The starts the loop of findSlots visits: windowStart, then steps of the
\* granularity while start + duration <= windowEnd.  An undefined duration
\* makes the duration NaN and the loop condition false.
CandidateStarts(req) ==
    IF req.durationMinutes = None THEN <<>>
    ELSE LET durationMs == Max(1, req.durationMinutes[1]) * MINUTE_MS
             granularityMs ==
                 Max(1, OrElse(req.granularityMinutes, Max(1, req.durationMinutes[1])))
                     * MINUTE_MS
             last == DateParse(req.windowEnd) - durationMs - DateParse(req.windowStart)
         IN  IF last < 0 THEN <<>>
             ELSE [k \in 1..((last \div granularityMs) + 1) |->
                      DateParse(req.windowStart) + (k - 1) * granularityMs]

InvalidWindow_endBeforeStart(req) ==
    \/ ~Parses(req.windowStart)
    \/ ~Parses(req.windowEnd)
    \/ DateParse(req.windowEnd) < DateParse(req.windowStart)

\* The guard of findSlots: a bound that is not finite, or an end not after
\* the start.
InvalidWindow(req) ==
    \/ ~Parses(req.windowStart)
    \/ ~Parses(req.windowEnd)
    \/ DateParse(req.windowEnd) <= DateParse(req.windowStart)

FindSlotsResult(req, raw) ==
    IF InvalidWindow(req)
    THEN [ok |-> FALSE, error |-> "Invalid scheduling window.", slots |-> <<>>,
          conflicts |-> <<>>, event |-> None]
    ELSE LET durationMs == Max(1, OrElse(req.durationMinutes, 1)) * MINUTE_MS
             occupied == GetOccupiedSlots(raw)
             Free(t) ==
                 /\ IsWithinWorkingHours(t, t + durationMs, req.workingHours,
                                         RequestTimezone(req))
                 /\ ~HasConflict(occupied, t, t + durationMs,
                                 req.bufferBeforeMinutes, req.bufferAfterMinutes)
             starts == SelectSeq(CandidateStarts(req), Free)
         IN  [ok |-> TRUE, error |-> "",
              slots |-> [i \in 1..Len(starts) |->
                            [start |-> ToISOString(starts[i]),
                             end |-> ToISOString(starts[i] + durationMs)]],
              conflicts |-> <<>>, event |-> None]

CheckSlotResult_noBuffers(req, raw) ==
    IF \/ ~Parses(req.start)
       \/ ~Parses(req.end)
       \/ DateParse(req.end) <= DateParse(req.start)
    THEN [ok |-> FALSE, error |-> "Invalid slot time.", slots |-> <<>>,
          conflicts |-> <<>>, event |-> None]
    ELSE LET occupied == GetOccupiedSlots(raw)
             Hit(slot) == overlaps(DateParse(req.start), DateParse(req.end),
                                   slot.startMs, slot.endMs)
             hits == SelectSeq(occupied, Hit)
         IN  [ok |-> TRUE, error |-> "", slots |-> <<>>,
              conflicts |-> [i \in 1..Len(hits) |->
                                [summary |-> "Busy", start |-> hits[i].start,
                                 end |-> hits[i].end]],
              event |-> None]

CheckSlotResult(req, raw) ==
    IF \/ ~Parses(req.start)
       \/ ~Parses(req.end)
       \/ DateParse(req.end) <= DateParse(req.start)
    THEN [ok |-> FALSE, error |-> "Invalid slot time.", slots |-> <<>>,
          conflicts |-> <<>>, event |-> None]
    ELSE LET occupied == GetOccupiedSlots(raw)
             bufferedStart == DateParse(req.start)
                                  - OrElse(req.bufferBeforeMinutes, 0) * MINUTE_MS
             bufferedEnd == DateParse(req.end)
                                  + OrElse(req.bufferAfterMinutes, 0) * MINUTE_MS
             Hit(slot) == overlaps(bufferedStart, bufferedEnd, slot.startMs, slot.endMs)
             hits == SelectSeq(occupied, Hit)
         IN  [ok |-> TRUE, error |-> "", slots |-> <<>>,
              conflicts |-> [i \in 1..Len(hits) |->
                                [summary |-> "Busy", start |-> hits[i].start,
                                 end |-> hits[i].end]],
              event |-> None]

CreateEventCheck_emptyList(req, raw) ==
    CheckSlotResult([start |-> req.start, end |-> req.end,
                     bufferBeforeMinutes |-> None, bufferAfterMinutes |-> None], <<>>)

\* createEvent checks the slot without buffers.
CreateEventCheck(req, raw) ==
    CheckSlotResult([start |-> req.start, end |-> req.end,
                     bufferBeforeMinutes |-> None, bufferAfterMinutes |-> None], raw)

CreateEventResult_ignoresConflicts(req, raw) ==
    LET check == CreateEventCheck(req, raw)
    IN  IF ~check.ok
        THEN [ok |-> FALSE, error |-> check.error, slots |-> <<>>, conflicts |-> <<>>,
              event |-> None]
        ELSE [ok |-> TRUE, error |-> "", slots |-> <<>>, conflicts |-> <<>>,
              event |-> Some([start |-> req.start, end |-> req.end])]

CreateEventResult(req, raw) ==
    LET check == CreateEventCheck(req, raw)
    IN  IF ~check.ok
        THEN [ok |-> FALSE, error |-> check.error, slots |-> <<>>, conflicts |-> <<>>, event |-> None]
        ELSE IF Len(check.conflicts) > 0
        THEN [ok |-> FALSE, error |-> "Requested slot conflicts with existing events.",
              slots |-> <<>>, conflicts |-> <<>>, event |-> None]
        ELSE [ok |-> TRUE, error |-> "", slots |-> <<>>, conflicts |-> <<>>,
              event |-> Some([start |-> req.start, end |-> req.end])]

\* ---- the requests the engine is given

MaxOccupied == 2

Slot(startMs, endMs) == [start |-> Instant(startMs), end |-> Instant(endMs)]

\* Thursday 10:00-10:30 is busy; one stored entry does not parse.
BusySlot == Slot(At(0, 10, 0, 0), At(0, 10, 30, 0))
UnreadableSlot == [start |-> BadTime, end |-> Instant(At(0, 12, 0, 0))]

InitialOccupied == { <<>>, <<UnreadableSlot, BusySlot>> }

Windows ==
    { <<Instant(At(0, 9, 30, 0)), Instant(At(0, 11, 0, 0))>>,
      <<Instant(At(0, 23, 30, 0)), Instant(At(1, 0, 30, 0))>>,
      <<Instant(At(0, 16, 30, 30)), Instant(At(0, 17, 30, 0))>>,
      <<Instant(At(0, 11, 0, 0)), Instant(At(0, 11, 0, 0))>>,
      <<Instant(At(0, 11, 0, 0)), Instant(At(0, 9, 30, 0))>>,
      <<BadTime, Instant(At(0, 11, 0, 0))>>,
      <<Instant(At(0, 9, 30, 0)), BadTime>> }

WorkingHoursChoices ==
    { None,
      Some([days |-> {4, 5}, start |-> HourMinute(9, 0), end |-> HourMinute(17, 0)]),
      Some([days |-> {5}, start |-> HourMinute(9, 0), end |-> HourMinute(17, 0)]),
      Some([days |-> {4, 5}, start |-> BadHourMinute, end |-> HourMinute(17, 0)]) }

\* The working day 09:00-17:00 searched in half hours.
WorkingDayRequest ==
    [windowStart |-> Instant(At(0, 9, 0, 0)), windowEnd |-> Instant(At(0, 17, 0, 0)),
     durationMinutes |-> Some(30), granularityMinutes |-> Some(30),
     workingHours |-> Some([days |-> {4}, start |-> HourMinute(9, 0),
                            end |-> HourMinute(17, 0)]),
     timezone |-> "", bufferBeforeMinutes |-> None, bufferAfterMinutes |-> None]

FindSlotsRequests ==
    {WorkingDayRequest} \cup
    { [windowStart |-> w[1], windowEnd |-> w[2], durationMinutes |-> d,
       granularityMinutes |-> g, workingHours |-> wh, timezone |-> tz,
       bufferBeforeMinutes |-> b, bufferAfterMinutes |-> b] :
          w \in Windows, d \in {None, Some(0), Some(30)},
          g \in {None, Some(15)}, wh \in WorkingHoursChoices,
          tz \in {"", "Europe/Berlin", "Mars/Phobos"}, b \in {None, Some(15)} }

SlotTimes ==
    { <<Instant(At(0, 10, 30, 0)), Instant(At(0, 11, 0, 0))>>,
      <<Instant(At(0, 10, 15, 0)), Instant(At(0, 10, 45, 0))>>,
      <<Instant(At(0, 11, 0, 0)), BadTime>> }

CheckSlotRequests ==
    { [start |-> t[1], end |-> t[2], bufferBeforeMinutes |-> b,
       bufferAfterMinutes |-> b] : t \in SlotTimes, b \in {None, Some(15)} }

CreateEventRequests == { [start |-> t[1], end |-> t[2]] : t \in SlotTimes }

NoResult == [ok |-> FALSE, error |-> "", slots |-> <<>>, conflicts |-> <<>>, event |-> None]

\* ---- the engine

InitEngine ==
    /\ calResult = NoResult
    /\ calOp = "new"
    /\ calArg = None

InitCal ==
    /\ occupiedTimeslots \in InitialOccupied
    /\ midnightHour \in {0, 24}
    /\ calRequest \in FindSlotsRequests
    /\ InitEngine

CalIdle ==
    /\ occupiedTimeslots = <<>>
    /\ midnightHour = 0
    /\ calRequest = CHOOSE r \in FindSlotsRequests : TRUE
    /\ InitEngine

StoredAfterRead_sortsInPlace(raw) ==
    LET occupied == GetOccupiedSlots(raw)
    IN  [i \in 1..Len(occupied) |-> [start |-> occupied[i].start, end |-> occupied[i].end]]

\* call.request.occupiedTimeslots after getOccupiedSlots: map and filter
\* build new arrays, and sort works on those, so the stored array is as it
\* was.
StoredAfterRead(raw) == raw

FindSlots ==
    /\ calResult' = FindSlotsResult(calRequest, occupiedTimeslots)
    /\ calOp' = "findSlots"
    /\ calArg' = None
    /\ occupiedTimeslots' = StoredAfterRead(occupiedTimeslots)
    /\ UNCHANGED <<midnightHour, calRequest>>
    /\ OnlyCal

CheckSlot(req) ==
    /\ calResult' = CheckSlotResult(req, occupiedTimeslots)
    /\ calOp' = "checkSlot"
    /\ calArg' = Some(req)
    /\ occupiedTimeslots' = StoredAfterRead(occupiedTimeslots)
    /\ UNCHANGED <<midnightHour, calRequest>>
    /\ OnlyCal

CreateEvent(req) ==
    /\ CreateEventResult(req, occupiedTimeslots).ok => Len(occupiedTimeslots) < MaxOccupied
    /\ calResult' = CreateEventResult(req, occupiedTimeslots)
    /\ occupiedTimeslots' =
           IF calResult'.ok
           THEN Append(occupiedTimeslots, [start |-> req.start, end |-> req.end])
           ELSE occupiedTimeslots
    /\ calOp' = "createEvent"
    /\ calArg' = Some(req)
    /\ UNCHANGED <<midnightHour, calRequest>>
    /\ OnlyCal

\* The caller checks the i-th slot findSlots has just returned, with the
\* buffers of the findSlots request.
FoundSlotRequest(i) ==
    [start |-> calResult.slots[i].start, end |-> calResult.slots[i].end,
     bufferBeforeMinutes |-> calRequest.bufferBeforeMinutes,
     bufferAfterMinutes |-> calRequest.bufferAfterMinutes]

CheckFoundSlot(i) ==
    /\ calOp = "findSlots"
    /\ i \in 1..Len(calResult.slots)
    /\ calResult' = CheckSlotResult(FoundSlotRequest(i), occupiedTimeslots)
    /\ calOp' = "checkFound"
    /\ calArg' = Some(FoundSlotRequest(i))
    /\ occupiedTimeslots' = StoredAfterRead(occupiedTimeslots)
    /\ UNCHANGED <<midnightHour, calRequest>>
    /\ OnlyCal

NextCal ==
    \/ FindSlots
    \/ \E i \in 1..Len(calResult.slots) : CheckFoundSlot(i)
    \/ \E req \in CheckSlotRequests : CheckSlot(req)
    \/ \E req \in CreateEventRequests : CreateEvent(req)

-----------------------------------------------------------------------------
(* SpecBook: one CalendarEngine taking bookings *)

\* Intervals asked for: the stored busy one, the one after it, one across
\* both, one later, and one with an unreadable end.
BookSlots ==
    { BusySlot,
      Slot(At(0, 10, 30, 0), At(0, 11, 0, 0)),
      Slot(At(0, 10, 15, 0), At(0, 10, 45, 0)),
      Slot(At(0, 11, 0, 0), At(0, 11, 30, 0)),
      [start |-> Instant(At(0, 11, 0, 0)), end |-> BadTime] }

\* call.request.occupiedTimeslots at construction: readable intervals that
\* do not overlap, with or without an unreadable one.
BookedAtStart == { <<>>, <<BusySlot>>, <<UnreadableSlot>> }

InitBook ==
    /\ occupiedTimeslots \in BookedAtStart
    /\ midnightHour = 0
    /\ calRequest = WorkingDayRequest
    /\ InitEngine

NextBook ==
    \/ \E req \in BookSlots : CreateEvent(req)
    \/ \E req \in BookSlots :
          CheckSlot([start |-> req.start, end |-> req.end,
                     bufferBeforeMinutes |-> None, bufferAfterMinutes |-> None])
    \/ FindSlots

-----------------------------------------------------------------------------
(* SpecHook: the /status route of the server with the Twilio provider *)

\* CallStatus spellings Twilio posts that are not CallStatus values.
Ringing       == <<"r","i","n","g","i","n","g">>
InProgressDash == <<"i","n","-","p","r","o","g","r","e","s","s">>
Initiated     == <<"i","n","i","t","i","a","t","e","d">>
Answered      == <<"a","n","s","w","e","r","e","d">>
EmptyText     == <<>>

\* req.body.CallStatus of a /status request: missing, or a text.
HookPayloads ==
    {None} \cup {Some(t) : t \in {Queued, Ringing, InProgressDash, Completed, Busy,
                                  NoAnswerDash, Failed, Canceled, Initiated, Answered,
                                  EmptyText, BusyUpper, NoAnswer, InProgress}}

MapStatus_unknownInProgress(payload) ==
    LET callStatus == OrElse(payload, EmptyText)
    IN  CASE callStatus \in {Queued, Ringing, InProgressDash} -> InProgress
          [] callStatus = Completed    -> Completed
          [] callStatus = Busy         -> Busy
          [] callStatus = NoAnswerDash -> NoAnswer
          [] callStatus = Failed       -> Failed
          [] callStatus = Canceled     -> Canceled
          [] OTHER                     -> InProgress

\* TwilioProvider.mapStatus: String(payload?.CallStatus ?? "") through the
\* switch.
MapStatus(payload) ==
    LET callStatus == OrElse(payload, EmptyText)
    IN  CASE callStatus \in {Queued, Ringing, InProgressDash} -> InProgress
          [] callStatus = Completed    -> Completed
          [] callStatus = Busy         -> Busy
          [] callStatus = NoAnswerDash -> NoAnswer
          [] callStatus = Failed       -> Failed
          [] callStatus = Canceled     -> Canceled
          [] OTHER                     -> Failed

\* Keys of this.sessions: the stream ids Twilio may send, and the call id,
\* which is the key when the start frame carries no streamSid.
CallId == "call-1"
StreamKeys == {"MZ1", "MZ2", CallId}

\* A frame of the media socket, after JSON.parse: msg.event,
\* msg.start.customParameters.callId, the streamSid (msg.start.streamSid of a
\* start frame, msg.streamSid of the others) and whether msg.media.payload
\* is there.
Frame(event, callId, streamSid, payload) ==
    [event |-> event, callId |-> callId, streamSid |-> streamSid, payload |-> payload]

NoFrame == Frame("none", None, None, FALSE)

\* The server before any request and with its media socket connected.
SrvIdle ==
    /\ hookPayload = None
    /\ srvSocket = "open"
    /\ srvSessions = <<>>
    /\ srvTable = [k \in StreamKeys |-> 0]
    /\ srvOp = "new"
    /\ srvFrame = NoFrame
    /\ srvSeq = 0

\* POST /status for a known callId: mapStatus of the body, then
\* CallManager.handleProviderStatus.
PostStatus(payload) ==
    /\ hookPayload' = payload
    /\ srvOp' = "postStatus"
    /\ StatusCallback(MapStatus(payload))
    /\ UNCHANGED <<srvSocket, srvSessions, srvTable, srvFrame, srvSeq>>
    /\ UNCHANGED <<sdkVars, wsVars, calVars, codecVars>>

\* POST /status whose callId is not in the map: handleProviderStatus returns
\* at once.
PostStatusUnknown(payload) ==
    /\ ~created
    /\ hookPayload' = payload
    /\ srvOp' = "postStatusUnknown"
    /\ UNCHANGED <<srvSocket, srvSessions, srvTable, srvFrame, srvSeq>>
    /\ UNCHANGED <<callVars, sdkVars, wsVars, calVars, codecVars>>

\* POST /status that fails validateProviderRequest: 401, nothing is read.
PostStatusUnauthorized ==
    /\ srvOp' = "unauthorized"
    /\ UNCHANGED <<hookPayload, srvSocket, srvSessions, srvTable, srvFrame, srvSeq>>
    /\ UNCHANGED <<callVars, sdkVars, wsVars, calVars, codecVars>>

InitHook == InitCall /\ SrvIdle

NextHook ==
    \/ StartCall
    \/ \E payload \in HookPayloads : PostStatus(payload)
    \/ \E payload \in HookPayloads : PostStatusUnknown(payload)
    \/ PostStatusUnauthorized
    \/ RetryDial

-----------------------------------------------------------------------------
(* SpecSrv: one media socket of the server and the session table *)

\* callId of a start frame: missing, the id of the record, an id of no record.
FrameCallIds == {None, Some(CallId), Some("call-9")}

\* start.streamSid of a start frame: missing or a stream id.
StartSids == {None, Some("MZ1"), Some("MZ2")}

\* msg.streamSid of a media or stop frame: missing, a stream id, or the text
\* of the call id.
FrameSids == {None} \cup {Some(k) : k \in StreamKeys}

\* A session as the server sees it: the key it was registered under,
\* whether close() was called on it, and the sendAudioInput calls it got.
NewSession(key) == [key |-> key, closed |-> FALSE, audio |-> 0]

\* this.deps.callManager.get(callId) finds the record.
KnownCall_anyId(callId) == created

KnownCall(callId) == created /\ callId = Some(CallId)

\* this.sessions.get(streamSid): the index of the session, 0 for undefined.
SessionOf(table, streamSid) ==
    IF streamSid = None THEN 0 ELSE table[streamSid[1]]

\* this.sessions.delete(streamSid)
TableDelete(table, streamSid) ==
    IF streamSid = None THEN table ELSE [table EXCEPT ![streamSid[1]] = 0]

\* session.close() on the session at index i
CloseSession(sessions, i) ==
    IF i = 0 THEN sessions ELSE [sessions EXCEPT ![i].closed = TRUE]

\* A frame arrives on the open socket.
Received(frame) ==
    /\ srvSocket = "open"
    /\ srvSeq < MaxFrames
    /\ srvSeq' = srvSeq + 1
    /\ srvFrame' = frame

\* handleVoiceStream, a start frame whose callId is in the map: the record
\* gets the stream id and in_progress, a session is constructed, registered
\* under call.streamSid ?? call.id and connected.
SrvStartFrame(callId, streamSid) ==
    /\ KnownCall(callId)
    /\ Len(srvSessions) < MaxSessions
    /\ Received(Frame("start", callId, streamSid, FALSE))
    /\ status' = InProgress
    /\ streamStarted' = TRUE
    /\ lastOp' = "streamStart"
    /\ writers' = Wrote(writers, "server", StreamStartWrites)
    /\ srvSessions' = Append(srvSessions, NewSession(OrElse(streamSid, CallId)))
    /\ srvTable' = [srvTable EXCEPT ![OrElse(streamSid, CallId)] = Len(srvSessions) + 1]
    /\ srvOp' = "startFrame"
    /\ UNCHANGED <<hookPayload, srvSocket>>
    /\ UNCHANGED <<maxAttempts, retryStatuses, initialDelayMs, backoffFactor,
                   lastDelay, startPc, created, attempt, report, completedAt,
                   pendingRetries, pendingHangups, now, dials, notified, reportCalls,
                   toolResult>>
    /\ UNCHANGED <<sdkVars, wsVars, calVars, codecVars>>

\* handleVoiceStream, a start frame whose callId is missing or not in the
\* map: socket.close() and return.
SrvStartFrameUnknown(callId, streamSid) ==
    /\ ~KnownCall(callId)
    /\ Received(Frame("start", callId, streamSid, FALSE))
    /\ srvSocket' = "closed"
    /\ srvOp' = "startFrameUnknown"
    /\ UNCHANGED <<hookPayload, srvSessions, srvTable>>
    /\ UNCHANGED <<callVars, sdkVars, wsVars, calVars, codecVars>>

\* handleVoiceStream, a media frame: the session of msg.streamSid, if there
\* is one and the frame has a payload, gets sendAudioInput.
SrvMediaFrame(streamSid, payload) ==
    /\ Received(Frame("media", None, streamSid, payload))
    /\ LET i == SessionOf(srvTable, streamSid)
       IN  IF i # 0 /\ payload
           THEN /\ srvSessions' = [srvSessions EXCEPT ![i].audio = @ + 1]
                /\ srvOp' = "mediaFrame"
           ELSE /\ srvSessions' = srvSessions
                /\ srvOp' = "mediaFrameDropped"
    /\ UNCHANGED <<hookPayload, srvSocket, srvTable>>
    /\ UNCHANGED <<callVars, sdkVars, wsVars, calVars, codecVars>>

\* handleVoiceStream, a stop frame: session?.close() and
\* this.sessions.delete(streamSid).
SrvStopFrame(streamSid) ==
    /\ Received(Frame("stop", None, streamSid, FALSE))
    /\ srvSessions' = CloseSession(srvSessions, SessionOf(srvTable, streamSid))
    /\ srvTable' = TableDelete(srvTable, streamSid)
    /\ srvOp' = "stopFrame"
    /\ UNCHANGED <<hookPayload, srvSocket>>
    /\ UNCHANGED <<callVars, sdkVars, wsVars, calVars, codecVars>>

\* handleVoiceStream, a frame that is not JSON, or JSON with another event:
\* nothing happens.
SrvOtherFrame ==
    /\ Received(Frame("mark", None, None, FALSE))
    /\ srvOp' = "otherFrame"
    /\ UNCHANGED <<hookPayload, srvSocket, srvSessions, srvTable>>
    /\ UNCHANGED <<callVars, sdkVars, wsVars, calVars, codecVars>>

\* What the socket's "close" handler does to the sessions: it emits a debug
\* event (the scheduling variant registers no "close" handler at all).
OnSocketClose_closesSessions(sessions) ==
    [i \in 1..Len(sessions) |-> [sessions[i] EXCEPT !.closed = TRUE]]

OnSocketClose(sessions) == sessions

\* The peer drops the media socket without a stop frame.
SrvSocketDropped ==
    /\ srvSocket = "open"
    /\ srvSocket' = "dropped"
    /\ srvSessions' = OnSocketClose(srvSessions)
    /\ srvOp' = "socketDropped"
    /\ UNCHANGED <<hookPayload, srvTable, srvFrame, srvSeq>>
    /\ UNCHANGED <<callVars, sdkVars, wsVars, calVars, codecVars>>

\* The sessions after stop(): close() on every value of this.sessions.
StopSessions_keepsOpen(sessions, table) == sessions

StopSessions(sessions, table) ==
    [i \in 1..Len(sessions) |->
        IF \E k \in StreamKeys : table[k] = i
        THEN [sessions[i] EXCEPT !.closed = TRUE]
        ELSE sessions[i]]

\* CallAgentServer.stop, up to its await: every registered session is
\* closed and the table cleared.
SrvStop ==
    /\ srvSessions' = StopSessions(srvSessions, srvTable)
    /\ srvTable' = [k \in StreamKeys |-> 0]
    /\ srvOp' = "stop"
    /\ UNCHANGED <<hookPayload, srvSocket, srvFrame, srvSeq>>
    /\ UNCHANGED <<callVars, sdkVars, wsVars, calVars, codecVars>>

InitSrv == CallIdle /\ SrvIdle

NextSrv ==
    \/ StartCall
    \/ \E callId \in FrameCallIds, streamSid \in StartSids : SrvStartFrame(callId, streamSid)
    \/ \E callId \in FrameCallIds, streamSid \in StartSids :
          SrvStartFrameUnknown(callId, streamSid)
    \/ \E streamSid \in FrameSids, payload \in BOOLEAN : SrvMediaFrame(streamSid, payload)
    \/ \E streamSid \in FrameSids : SrvStopFrame(streamSid)
    \/ SrvOtherFrame
    \/ SrvSocketDropped
    \/ SrvStop

-----------------------------------------------------------------------------
(* SpecCodec: the mu-law codec applied to one 16-bit PCM sample *)

MU_LAW_MAX == 8191
BIAS == 132

\* Distance between the samples tried, besides the edges of the ranges.
SampleStride == 331

\* 16-bit PCM samples: a comb over the whole range and the edge values.
Samples ==
    {k * SampleStride - 32768 : k \in 0..(65535 \div SampleStride)}
        \cup {-32768, -32767, -8192, -8191, -133, -1, 0, 1, 132, 8191, 8192, 32767}

Abs(x) == IF x < 0 THEN 0 - x ELSE x

\* x >> n for a non-negative x
ShiftRight(x, n) == x \div Pow(2, n)

\* linearToMuLawSample, its loop: from exponent 7 and expMask 0x4000 down,
\* while the masked bit is clear and the exponent is positive.
RECURSIVE ExponentFrom(_, _)
ExponentFrom(biased, exponent) ==
    IF ShiftRight(biased, exponent + 7) % 2 = 0 /\ exponent > 0
    THEN ExponentFrom(biased, exponent - 1)
    ELSE exponent

\* linearToMuLawSample
LinearToMuLawSample(sample) ==
    LET sign      == IF sample < 0 THEN 128 ELSE 0
        magnitude == IF sample < 0 THEN 0 - sample ELSE sample
        clipped   == IF magnitude > MU_LAW_MAX THEN MU_LAW_MAX ELSE magnitude
        biased    == clipped + BIAS
        exponent  == ExponentFrom(biased, 7)
        mantissa  == ShiftRight(biased, exponent + 3) % 16
    IN  255 - (sign + exponent * 16 + mantissa)

\* muLawDecodeSample
MuLawDecodeSample(byte) ==
    LET u        == 255 - byte
        sign     == IF ShiftRight(u, 7) % 2 = 1 THEN -1 ELSE 1
        exponent == ShiftRight(u, 4) % 8
        mantissa == u % 16
        sample   == (mantissa * 8 + BIAS) * Pow(2, exponent)
    IN  sign * (sample - BIAS)

InitCodec ==
    /\ pcmSample \in Samples
    /\ muLawByte = None
    /\ pcmDecoded = None

CodecIdle ==
    /\ pcmSample = 0
    /\ muLawByte = None
    /\ pcmDecoded = None

\* encodeMuLaw on the sample
Encode ==
    /\ muLawByte = None
    /\ muLawByte' = Some(LinearToMuLawSample(pcmSample))
    /\ UNCHANGED <<pcmSample, pcmDecoded>>
    /\ UNCHANGED <<callVars, sdkVars, wsVars, calVars, srvVars>>

\* The receiving side decodes the byte.
Decode ==
    /\ muLawByte # None
    /\ pcmDecoded = None
    /\ pcmDecoded' = Some(MuLawDecodeSample(muLawByte[1]))
    /\ UNCHANGED <<pcmSample, muLawByte>>
    /\ UNCHANGED <<callVars, sdkVars, wsVars, calVars, srvVars>>

NextCodec ==
    \/ Encode
    \/ Decode

-----------------------------------------------------------------------------
(* The specifications *)

Init == InitCall /\ SdkIdle /\ WsIdle /\ CalIdle /\ SrvIdle /\ CodecIdle

\* The record from startCall to the hangup. The moment the provider's
\* startCall settles changes no stage of the record and is followed in
\* SpecDial.
Next ==
    \/ StartCall
    \/ \E st \in ProviderStatuses : HandleProviderStatus(st)
    \/ HandleProviderStatusUnknown
    \/ RetryDial
    \/ StreamStart
    \/ StreamStartUnknown
    \/ \E args \in ReportArgs : ReportCall(args)
    \/ \E outcome \in HangupOutcomes : EndCall(outcome)

Spec == Init /\ [][Next]_vars

InitSdkSide == InitSdk /\ CallIdle /\ WsIdle /\ CalIdle /\ SrvIdle /\ CodecIdle

SpecSdk == InitSdkSide /\ [][NextSdk]_vars

\* setTimeout runs its callback once the delay has passed unless the timer
\* was cleared: the greeting timeout, while armed, does fire.
SpecSdkFair == InitSdkSide /\ [][NextSdk]_vars /\ WF_vars(GreetingTimeout)

InitWsSide == InitWs /\ CallInProgress /\ SdkIdle /\ CalIdle /\ SrvIdle /\ CodecIdle

SpecWs == InitWsSide /\ [][NextWs]_vars

\* The audio path of the websocket session: its life cycle with the audio
\* in both directions.  Tool calls and turn requests touch neither the audio
\* log nor the life cycle, and so are left to SpecWs.
NextWsAudio ==
    \/ WsConnectNoKey
    \/ WsConnect
    \/ WsOpen
    \/ WsClose
    \/ WsError
    \/ WsClosedEvent
    \/ WsSpeechStarted
    \/ WsAudioDelta
    \/ WsSendAudioInput

SpecWsAudio == InitWsSide /\ [][NextWsAudio]_vars

InitCalSide == InitCal /\ CallIdle /\ SdkIdle /\ WsIdle /\ SrvIdle /\ CodecIdle

SpecCal == InitCalSide /\ [][NextCal]_vars

InitDialSide == InitDial /\ SdkIdle /\ WsIdle /\ CalIdle /\ SrvIdle /\ CodecIdle

SpecDial == InitDialSide /\ [][NextDial]_vars

InitHookSide == InitHook /\ SdkIdle /\ WsIdle /\ CalIdle /\ CodecIdle

SpecHook == InitHookSide /\ [][NextHook]_vars

InitCodecSide == InitCodec /\ CallIdle /\ SdkIdle /\ WsIdle /\ CalIdle /\ SrvIdle

SpecCodec == InitCodecSide /\ [][NextCodec]_vars

InitBookSide == InitBook /\ CallIdle /\ SdkIdle /\ WsIdle /\ SrvIdle /\ CodecIdle

SpecBook == InitBookSide /\ [][NextBook]_vars

InitSrvSide == InitSrv /\ SdkIdle /\ WsIdle /\ CalIdle /\ CodecIdle

SpecSrv == InitSrvSide /\ [][NextSrv]_vars

-----------------------------------------------------------------------------
(* Properties of the call record, checked under Spec *)

\* The transition table of the call lifecycle.
ListedTransition(a, b) ==
    \/ a = Queued /\ b = Dialing
    \/ a = Dialing /\ b \in {InProgress, Busy, NoAnswer, Failed, Canceled}
    \/ a = InProgress /\ b = Completed
    \/ a \in {Busy, NoAnswer, Failed} /\ b = Dialing

\* C1: every change of a call's status follows one of the listed transitions
\* (queued->dialing, dialing->in_progress|busy|no_answer|failed|canceled,
\* in_progress->completed, busy|no_answer|failed->dialing).
C1_OnlyListedTransitions ==
    [][status' # status => ListedTransition(status, status')]_vars

\* C2: once the status is completed or canceled, no later step changes it.
C2_TerminalStatusIsFinal ==
    [][(status \in {Completed, Canceled}) => status' = status]_vars

\* C3: attempt changes only in a dial (the one inside startCall or a retry
\* dial), each dial raises it by exactly 1, and it never decreases.
C3_AttemptPlusOnePerDial ==
    [][ /\ dials' \in {dials, dials + 1}
        /\ dials' = dials + 1 =>
              /\ attempt' = attempt + 1
              /\ lastOp' \in {"startCall", "retryDial"}
        /\ dials' = dials => attempt' = attempt ]_vars

C3_Witness ==
    /\ lastOp = "retryDial"
    /\ attempt = 2
    /\ dials = 2

\* The retry condition as the lifecycle states it: the reported status is in
\* the configured retry set and the attempt budget is not used up.
RetryCondition(st, att) ==
    /\ att < maxAttempts
    /\ \E r \in retryStatuses : NormalizeStatus(r) = NormalizeStatus(st)

\* C4: a provider status callback schedules one retry dial if and only if the
\* reported status is in the retry set and attempt < maxAttempts; otherwise it
\* schedules nothing; either way it leaves the call in the reported status
\* with its attempt unchanged.
C4_RetryIffRetryableAndBudget ==
    [][lastOp' = "status" =>
          /\ status' \in ProviderStatuses
          /\ attempt' = attempt
          /\ dials' = dials
          /\ IF RetryCondition(status', attempt)
             THEN pendingRetries' = pendingRetries + 1
             ELSE pendingRetries' = pendingRetries ]_vars

\* busy reported on attempt 3 of 3 with retryStatuses = [busy]: the two
\* earlier retries were scheduled and fired, and none is scheduled now.
C4_Witness ==
    /\ maxAttempts = 3
    /\ retryStatuses = {Busy}
    /\ lastOp = "status"
    /\ status = Busy
    /\ attempt = 3
    /\ dials = 3
    /\ pendingRetries = 0

\* C5: the attempt counter never exceeds config.retry.maxAttempts.
C5_AttemptWithinBudget == attempt <= maxAttempts

\* C6: every report_call invocation returns {ok: true}; the first one stores
\* its normalized report with the completion time and notifies once; a later
\* one leaves report and completedAt unchanged and notifies nobody.
C6_FirstReportWins ==
    [][reportCalls' = reportCalls + 1 =>
          /\ toolResult' = "ok"
          /\ IF report = NoReport
             THEN /\ report' \in {NormalizeReport(a) : a \in ReportArgs}
                  /\ completedAt' = now
                  /\ notified' = notified + 1
             ELSE /\ report' = report
                  /\ completedAt' = completedAt
                  /\ notified' = notified ]_vars

C6_Witness ==
    /\ lastOp = "reportCall"
    /\ reportCalls = 2
    /\ report # NoReport
    /\ completedAt = 1
    /\ now = 3
    /\ notified = 1
    /\ toolResult = "ok"

-----------------------------------------------------------------------------
(* Properties of the agents-SDK session, checked under SpecSdk *)

\* Positions of the opening response.create in what the session sent.
Greetings == {i \in 1..Len(sent) : sent[i] = "response.create"}

\* C7: the opening response.create is sent at most once in a session.
C7_GreetingAtMostOnce == Cardinality(Greetings) <= 1

\* The race the once-only flag decides: session.updated is handled while
\* sendSessionUpdate is suspended, the timer is armed afterwards and fires.
C7_Witness ==
    /\ sdkOp = "greetingTimeout"
    /\ timedOut
    /\ Cardinality(Greetings) = 1
    /\ sent = <<"response.create", "session.update">>

\* C8: the greeting is sent only after the session.update, and only once a
\* session.updated for it has arrived or the greeting timeout has elapsed.
C8_GreetingAfterConfigApplied ==
    \A i \in Greetings :
        /\ \E j \in 1..(i - 1) : sent[j] = "session.update"
        /\ confirmed \/ timedOut

\* C9: once the session.update has been sent, the greeting is eventually sent
\* or the session is closed, whether or not session.updated ever arrives.
C9_GreetingEventually ==
    (updatePc = "done" /\ ~closed) ~> (Greetings # {} \/ closed)

\* The greeting went out on the timeout alone: no session.updated was handled
\* after the session.update.
C9_Witness ==
    /\ sdkOp = "greetingTimeout"
    /\ updatePc = "done"
    /\ ~closed
    /\ ~confirmed
    /\ awaitingSessionUpdated
    /\ sent = <<"session.update", "response.create">>

-----------------------------------------------------------------------------
(* Properties of the raw-websocket session, checked under SpecWs *)

IsToolOutput(m) == m.response = "function_call_output"
IsLive(c) == c.live

CallIdsOf(seq) == [i \in 1..Len(seq) |-> seq[i].callId]

\* Every function_call_output is directly followed by the response.create
\* that asks for the next turn.
OutputBeforeNextTurn ==
    \A i \in 1..Len(wsSent) :
        IsToolOutput(wsSent[i]) => /\ i < Len(wsSent)
                                   /\ wsSent[i + 1] = NextTurnMsg

\* C10: every tool-call message received while the session is open gets exactly
\* one function_call_output with its call id, sent before the next-turn
\* response.create.  (A message handled after close() is left aside: send()
\* drops whatever a closed session writes.)
C10_LiveToolCallAnswered ==
    /\ CallIdsOf(SelectSeq(wsSent, IsToolOutput))
           = CallIdsOf(SelectSeq(toolCalls, IsLive))
    /\ OutputBeforeNextTurn

\* C11: a tool call received while the session is open whose arguments are not
\* JSON, or whose tool name is unknown, does not throw and is answered with a
\* function_call_output carrying {ok: false, error}.
C11_BadToolCallGetsFailure ==
    \A i \in 1..Len(toolCalls) :
        (toolCalls[i].live /\ toolCalls[i].mustFail) =>
            /\ ~toolCalls[i].threw
            /\ \E j \in 1..Len(wsSent) :
                   wsSent[j] = ToolOutputMsg(toolCalls[i].callId, FALSE)

-----------------------------------------------------------------------------
(* Closing, audio input and failed connects *)

\* C12: the first close() marks the session closed and closes the model socket
\* once; a later close(), from the server or from the socket's error handler,
\* changes no field of the session and closes nothing again.
C12_CloseIdempotent ==
    [][wsOp' \in {"close", "closeAgain", "error", "errorAgain"} =>
          IF wsClosed
          THEN UNCHANGED <<ws, wsClosed, wsCloses, responsePending, wsSent>>
          ELSE /\ wsClosed'
               /\ wsCloses' = IF ws = "none" THEN 0 ELSE 1
               /\ ws' \notin {"connecting", "open"} ]_vars

\* close() from the server after the error handler has already closed the
\* session: the socket was closed once and is still closing.
C12_Witness ==
    /\ wsOp = "closeAgain"
    /\ wsClosed
    /\ wsCloses = 1
    /\ ws = "closing"

\* C13: a sendAudioInput call on a closed session, or before the model socket
\* is connected, sends nothing to the model and raises no error.
C13_AudioDroppedSilently ==
    [][(wsOp' \in {"audioIn", "audioInThrew"} /\ (wsClosed \/ ws # "open")) =>
          /\ wsSent' = wsSent
          /\ wsOp' = "audioIn" ]_vars

\* C14, as claimed: after connect() without credentials, or after a failed
\* connection attempt, the session is closed.
C14_FailedConnectEndsClosed ==
    sdkOp \in {"connectNoKey", "connectFail"} => closed

\* C14, amended: connect() without credentials opens no connection, sends
\* nothing and leaves the closed flag as it was; a failed connection attempt
\* closes the session; in both cases no further connection attempt is made.
C14_FailedConnectIsFinal ==
    [][ /\ sdkOp' = "connectNoKey" =>
              /\ ~session' /\ transport' = "none"
              /\ closed' = closed /\ sent' = sent
        /\ sdkOp' = "connectFail" => closed' /\ transport' = "closed"
        /\ ~apiKey => transport' = "none"
        /\ transport \in {"aborting", "closing", "closed"} =>
              transport' \notin {"connecting", "connected"} ]_vars

\* Audio handed to a session that was started without credentials: nothing
\* is sent and the session is not marked closed.
C14_Witness ==
    /\ ~apiKey
    /\ sdkOp = "audioIn"
    /\ ~session
    /\ ~closed
    /\ sent = <<>>

-----------------------------------------------------------------------------
(* Audio towards the callee *)

IsMedia(f) == f.event = "media"
SeqsOf(events) == [i \in 1..Len(events) |-> events[i].seq]

ClearsWithin(out, n) == Cardinality({j \in 1..n : out[j] = ClearFrame})

\* Number of speech-started signals among the first n events received.
SignalsWithin(events, n) ==
    Cardinality({k \in 1..n : events[k] = SpeechSignal("speech_started")})

-----------------------------------------------------------------------------
(* Turn requests *)

\* C17: every response.create the session sends is the opening greeting or
\* directly follows a function_call_output; none is sent in reaction to a
\* speech-started or speech-stopped signal.
C17_TurnsOnlyForGreetingAndTools ==
    \A i \in 1..Len(wsSent) :
        wsSent[i].type = "response.create" =>
            \/ wsSent[i] = GreetingMsg
            \/ i > 1 /\ IsToolOutput(wsSent[i - 1])

-----------------------------------------------------------------------------
(* Ownership of the record's fields *)

\* C18: the realtime session never writes status or attempt, and the call
\* manager never writes report or completedAt.
C18_WritersKeepToTheirFields ==
    /\ "session" \notin writers["status"] \cup writers["attempt"]
    /\ "manager" \notin writers["report"] \cup writers["completedAt"]

\* The session has stored a report and the manager has handled a provider
\* status after it.
C18_Witness ==
    /\ lastOp = "status"
    /\ report # NoReport
    /\ "session" \in writers["report"] \cap writers["completedAt"]
    /\ "manager" \in writers["status"] \cap writers["attempt"]

\* C19, as claimed: no field of the record is written by both the realtime
\* session and the call manager.
C19_NoSharedField ==
    \A f \in RecordFields : ~({"session", "manager"} \subseteq writers[f])

\* C19, amended: updatedAt is the only field of the record written by both
\* the realtime session and the call manager.
C19_OnlyUpdatedAtShared ==
    \A f \in RecordFields \ {"updatedAt"} :
        ~({"session", "manager"} \subseteq writers[f])

\* Both have written updatedAt, and each has written fields of its own.
C19_Witness ==
    /\ {"session", "manager"} \subseteq writers["updatedAt"]
    /\ writers["report"] = {"session"}
    /\ writers["attempt"] = {"manager"}
    /\ lastOp = "reportCall"

-----------------------------------------------------------------------------
(* Properties of the slot engine, checked under SpecCal *)

\* The zone a request's local days are counted in: its own when that zone
\* resolves, the default zone otherwise.
LocalOffsetMs(req) ==
    OrElse(UtcOffset(RequestTimezone(req)), OrElse(UtcOffset(DefaultTimezone), 0))
        * MINUTE_MS

\* The slot [startMs, endMs) lies in one local calendar day and, when the
\* request names working hours, on an allowed weekday and inside the hours
\* (as far as the hours can be read).
InOneWorkingDay(startMs, endMs, req) ==
    LET localStart == startMs + LocalOffsetMs(req)
        localEnd == endMs + LocalOffsetMs(req)
        day == localStart \div DayMs
    IN  /\ (localEnd - 1) \div DayMs = day
        /\ req.workingHours # None =>
              LET wh == req.workingHours[1]
                  workingStart == ParseWorkingMinutes(wh.start)
                  workingEnd == ParseWorkingMinutes(wh.end)
              IN  /\ (EpochWeekday + day) % 7 \in wh.days
                  /\ workingStart # None =>
                        localStart - day * DayMs >= workingStart[1] * MINUTE_MS
                  /\ workingEnd # None =>
                        localEnd - day * DayMs <= workingEnd[1] * MINUTE_MS

\* C20: every slot findSlots returns is as long as the requested duration
\* and lies within one working day, whatever the request.
C20_SlotsFitOneWorkingDay ==
    calOp = "findSlots" =>
        \A i \in 1..Len(calResult.slots) :
            LET startMs == DateParse(calResult.slots[i].start)
                endMs == DateParse(calResult.slots[i].end)
            IN  /\ calRequest.durationMinutes # None
                /\ endMs - startMs = calRequest.durationMinutes[1] * MINUTE_MS
                /\ InOneWorkingDay(startMs, endMs, calRequest)

\* C21: a slot findSlots has just returned, checked by checkSlot with the
\* same buffers against the same stored intervals, is valid and has no
\* conflict.
C21_FoundSlotPassesCheck ==
    [][calOp' = "checkFound" => (calResult'.ok /\ calResult'.conflicts = <<>>)]_vars

\* A found slot was checked with buffers while a busy interval is stored,
\* and the search had skipped candidates.
C21_Witness ==
    /\ calOp = "checkFound"
    /\ calResult.ok
    /\ calRequest.bufferBeforeMinutes = Some(15)
    /\ occupiedTimeslots = <<UnreadableSlot, BusySlot>>
    /\ Len(CandidateStarts(calRequest)) >
           Len(FindSlotsResult(calRequest, occupiedTimeslots).slots)
    /\ calRequest.workingHours = None

\* The interval of a request is unusable: a time does not parse or the end
\* is not after the start.
InvalidInterval(req) ==
    \/ ~Parses(req.start)
    \/ ~Parses(req.end)
    \/ DateParse(req.end) <= DateParse(req.start)

\* Some readable stored interval shares an instant with [startMs, endMs).
OverlapsStored(raw, startMs, endMs) ==
    \E i \in 1..Len(raw) :
        /\ ~InvalidInterval(raw[i])
        /\ DateParse(raw[i].start) < endMs
        /\ startMs < DateParse(raw[i].end)

\* C22: createEvent with an invalid or conflicting interval returns a
\* failure with an error text and changes neither the stored list nor the
\* call record; otherwise it appends exactly the requested interval and
\* returns an event reference.
C22_CreateEventAllOrNothing ==
    [][calOp' = "createEvent" =>
          LET req == calArg'[1]
          IN  IF \/ InvalidInterval(req)
                 \/ OverlapsStored(occupiedTimeslots, DateParse(req.start),
                                   DateParse(req.end))
              THEN /\ ~calResult'.ok
                   /\ calResult'.error # ""
                   /\ calResult'.event = None
                   /\ UNCHANGED <<occupiedTimeslots, callVars>>
              ELSE /\ calResult'.ok
                   /\ calResult'.event = Some([start |-> req.start, end |-> req.end])
                   /\ occupiedTimeslots' =
                          Append(occupiedTimeslots, [start |-> req.start, end |-> req.end])
                   /\ UNCHANGED callVars]_vars

\* A booking succeeded and a later, overlapping one was refused.
C22_Witness ==
    /\ calOp = "createEvent"
    /\ ~calResult.ok
    /\ calResult.error = "Requested slot conflicts with existing events."
    /\ Len(occupiedTimeslots) = 1
    /\ ~InvalidInterval(calArg[1])

\* The working-hours rule as the request states it: with working hours, a
\* slot lies in one local day, on an allowed weekday, inside the hours;
\* without them every slot passes.
WorkingHoursRule(startMs, endMs, req) ==
    req.workingHours # None => InOneWorkingDay(startMs, endMs, req)

\* The slots a request asks for: starts windowStart + k * granularity with
\* start + duration <= windowEnd that pass the working-hours rule and whose
\* buffered interval overlaps no stored interval.
ExpectedSlots(req, raw) ==
    IF req.durationMinutes = None THEN {}
    ELSE LET durationMs == req.durationMinutes[1] * MINUTE_MS
             granularityMs == OrElse(req.granularityMinutes, req.durationMinutes[1])
                                  * MINUTE_MS
             windowStartMs == DateParse(req.windowStart)
             windowEndMs == DateParse(req.windowEnd)
             steps == IF granularityMs <= 0 THEN 0
                      ELSE (windowEndMs - windowStartMs) \div granularityMs
             starts == { windowStartMs + k * granularityMs : k \in 0..steps }
         IN  { <<t, t + durationMs>> : t \in
                 { u \in starts :
                     /\ u + durationMs <= windowEndMs
                     /\ WorkingHoursRule(u, u + durationMs, req)
                     /\ ~OverlapsStored(raw,
                            u - OrElse(req.bufferBeforeMinutes, 0) * MINUTE_MS,
                            u + durationMs
                              + OrElse(req.bufferAfterMinutes, 0) * MINUTE_MS) } }

ReturnedSlots(result) ==
    { <<DateParse(result.slots[i].start), DateParse(result.slots[i].end)>> :
        i \in 1..Len(result.slots) }

\* C23: for a valid window findSlots returns exactly the slots the request
\* asks for.
C23_ExactlyTheFreeCandidates ==
    (calOp = "findSlots" /\ calResult.ok) =>
        ReturnedSlots(calResult) = ExpectedSlots(calRequest, occupiedTimeslots)

\* The positions of the readable stored intervals that share an instant
\* with [startMs, endMs).
StoredHits(raw, startMs, endMs) ==
    { i \in 1..Len(raw) :
        /\ ~InvalidInterval(raw[i])
        /\ DateParse(raw[i].start) < endMs
        /\ startMs < DateParse(raw[i].end) }

\* C24: checkSlot on a valid interval reports exactly the stored busy
\* intervals that overlap the interval widened by the buffers, one conflict
\* each, and an empty list exactly when none overlaps.
C24_ConflictsAreTheOverlaps ==
    [][(calOp' \in {"checkSlot", "checkFound"} /\ ~InvalidInterval(calArg'[1])) =>
          LET req == calArg'[1]
              hits == StoredHits(occupiedTimeslots,
                         DateParse(req.start)
                           - OrElse(req.bufferBeforeMinutes, 0) * MINUTE_MS,
                         DateParse(req.end)
                           + OrElse(req.bufferAfterMinutes, 0) * MINUTE_MS)
              found == calResult'.conflicts
          IN  /\ calResult'.ok
              /\ Len(found) = Cardinality(hits)
              /\ { [start |-> found[j].start, end |-> found[j].end] :
                      j \in 1..Len(found) }
                   = { [start |-> occupiedTimeslots[i].start,
                        end |-> occupiedTimeslots[i].end] : i \in hits }
              /\ (found = <<>>) <=> (hits = {})]_vars

\* A slot that touches the busy interval only through its buffer is
\* reported as conflicting with it, and the unreadable entry is not listed.
C24_Witness ==
    /\ calOp = "checkSlot"
    /\ occupiedTimeslots = <<UnreadableSlot, BusySlot>>
    /\ calArg = Some([start |-> Instant(At(0, 10, 30, 0)),
                      end |-> Instant(At(0, 11, 0, 0)),
                      bufferBeforeMinutes |-> Some(15),
                      bufferAfterMinutes |-> Some(15)])
    /\ Len(calResult.conflicts) = 1
    /\ calResult.conflicts[1].start = BusySlot.start

\* The intervals the engine is holding: the readable stored ones, the one
\* last asked about (widened by its buffers) and the slots last returned.
StoredIntervals ==
    { <<DateParse(occupiedTimeslots[i].start), DateParse(occupiedTimeslots[i].end)>> :
        i \in { j \in 1..Len(occupiedTimeslots) : ~InvalidInterval(occupiedTimeslots[j]) } }

AskedIntervals ==
    IF calArg = None \/ ~calResult.ok \/ calOp \notin {"checkSlot", "checkFound"}
    THEN {}
    ELSE { <<DateParse(calArg[1].start)
               - OrElse(calArg[1].bufferBeforeMinutes, 0) * MINUTE_MS,
             DateParse(calArg[1].end)
               + OrElse(calArg[1].bufferAfterMinutes, 0) * MINUTE_MS>> }

\* C25: the overlap test gives the same answer with its intervals swapped,
\* two intervals of which one ends where the other starts do not overlap,
\* and a slot ending exactly where a stored busy interval starts is reported
\* free of it.
C25_OverlapSymmetricAdjacentFree ==
    /\ \A a, b \in StoredIntervals \cup AskedIntervals \cup ReturnedSlots(calResult) :
          /\ overlaps(a[1], a[2], b[1], b[2]) = overlaps(b[1], b[2], a[1], a[2])
          /\ a[2] = b[1] => ~overlaps(a[1], a[2], b[1], b[2])
    /\ \A a \in AskedIntervals :
          \A i \in 1..Len(occupiedTimeslots) :
             (/\ ~InvalidInterval(occupiedTimeslots[i])
              /\ DateParse(occupiedTimeslots[i].start) = a[2]) =>
                \A j \in 1..Len(calResult.conflicts) :
                    calResult.conflicts[j].start # occupiedTimeslots[i].start

\* The slot 09:30-10:00 was checked against the busy interval 10:00-10:30
\* and came back free.
C25_Witness ==
    /\ calOp = "checkFound"
    /\ occupiedTimeslots = <<UnreadableSlot, BusySlot>>
    /\ calArg # None
    /\ calArg[1].end = BusySlot.start
    /\ calArg[1].bufferAfterMinutes = None
    /\ calResult.ok
    /\ calResult.conflicts = <<>>

\* C26: findSlots given a window bound that does not parse, or a window
\* whose end is not after its start, returns a failure with an error text
\* and no slot.
C26_BadWindowIsAnErrorResult ==
    (/\ calOp = "findSlots"
     /\ InvalidInterval([start |-> calRequest.windowStart,
                         end |-> calRequest.windowEnd])) =>
        /\ ~calResult.ok
        /\ calResult.error # ""
        /\ calResult.slots = <<>>

\* A search over a window that ends when it starts, with a duration and
\* busy intervals present, came back as an error.
C26_Witness ==
    /\ calOp = "findSlots"
    /\ calRequest.windowStart = Instant(At(0, 11, 0, 0))
    /\ calRequest.windowEnd = Instant(At(0, 11, 0, 0))
    /\ calRequest.durationMinutes = Some(30)
    /\ occupiedTimeslots = <<UnreadableSlot, BusySlot>>
    /\ calResult.error = "Invalid scheduling window."

-----------------------------------------------------------------------------
(* Properties of the call manager alone, checked under SpecDial *)

\* d is the integer nearest to num / den, halves counted upwards.
IsNearest(d, num, den) ==
    /\ 2 * num - den < 2 * d * den
    /\ 2 * d * den <= 2 * num + den

\* C27: the retry timer set after dial attempt n waits
\* round(initialDelayMs * backoffFactor^(n-1)); under the default backoff
\* that is 60000, 120000 and 240000 after attempts 1, 2 and 3; and with a
\* factor of at least 1 a later timer never waits less than an earlier one.
C27_RetryDelayFollowsBackoff ==
    [][(lastOp' = "status" /\ pendingRetries' = pendingRetries + 1) =>
          /\ attempt >= 1
          /\ IsNearest(lastDelay',
                       initialDelayMs * Pow(backoffFactor[1], attempt - 1),
                       Pow(backoffFactor[2], attempt - 1))
          /\ (initialDelayMs = 60000 /\ backoffFactor = <<2, 1>> /\ attempt <= 3) =>
                lastDelay' = <<60000, 120000, 240000>>[attempt]
          /\ backoffFactor[1] >= backoffFactor[2] => lastDelay' >= lastDelay]_vars

\* Under the default backoff the third attempt was reported busy and its
\* retry waits 240000 ms.
C27_Witness ==
    /\ lastOp = "status"
    /\ initialDelayMs = 60000
    /\ backoffFactor = <<2, 1>>
    /\ attempt = 3
    /\ pendingRetries > 0
    /\ lastDelay = 240000

\* One character of a status spelling: a letter in either case, or any of
\* the separators.
SameLetter(a, b) ==
    \/ a = b
    \/ \E i \in 1..26 : {a, b} = {UpperChars[i], LowerChars[i]}
    \/ {a, b} \subseteq {"_", "-", " ", "\t"}

\* Two spellings that differ only in letter case or in the separator used.
SameStatus(a, b) ==
    /\ Len(a) = Len(b)
    /\ \A i \in 1..Len(a) : SameLetter(a[i], b[i])

\* C28: whether a reported status schedules a retry depends on the reported
\* and the configured statuses only up to letter case and separator: a retry
\* is scheduled exactly when an attempt is left and some configured status
\* is the reported one in some spelling.
C28_RetryDecisionIgnoresSpelling ==
    [][(lastOp' = "status") =>
          ((pendingRetries' = pendingRetries + 1) <=>
              (/\ attempt < maxAttempts
               /\ \E r \in retryStatuses : SameStatus(status', r)))]_vars

\* "No Answer" was reported against the configured "no-answer" and a retry
\* was scheduled for it.
C28_Witness ==
    /\ lastOp = "status"
    /\ status = NoAnswerSpaced
    /\ retryStatuses = {BusyUpper, NoAnswerDash, Failed}
    /\ attempt = 1
    /\ pendingRetries = 1
    /\ lastDelay = 1

\* C29: a provider startCall that fails during startCall is passed on to the
\* caller and schedules no retry; a startCall that succeeds returns a record
\* on which exactly one dial has been performed, attempt = 1.
C29_StartCallReturnsAfterOneDial ==
    [][/\ (lastOp' = "startCallThrew") =>
             (startPc' = "threw" /\ pendingRetries' = pendingRetries)
       /\ (lastOp' = "startCallReturned") =>
             (startPc' = "returned" /\ attempt' = 1 /\ dials' = 1)]_vars

\* How endCall can end.
EndCallEnds ==
    {EndCallOp(outcome) : outcome \in HangupOutcomes}
        \cup {EndCallOp_rethrows(outcome) : outcome \in HangupOutcomes}
        \cup {"endCallUnknown"}

\* C30: endCall resolves and leaves every field of the call record as it
\* was, whether the provider hung up, failed to hang up, has no endCall, or
\* the call id is unknown.
C30_EndCallSilentAndReadOnly ==
    [][(lastOp' \in EndCallEnds) =>
          /\ lastOp' # "endCallThrew"
          /\ UNCHANGED <<created, status, attempt, report, completedAt, writers>>
          /\ UNCHANGED <<pendingRetries, dials>>]_vars

\* endCall on a record that had been dialed and reported busy, with a
\* provider whose hangup failed.
C30_Witness ==
    /\ lastOp = "endCallIgnoredError"
    /\ created
    /\ attempt >= 1
    /\ status = Busy

-----------------------------------------------------------------------------
(* Properties of the /status route, checked under SpecHook *)

\* The mapping as the provider's contract lists it.
ListedStatus(payload) ==
    IF payload \in {Some(Queued), Some(Ringing), Some(InProgressDash)} THEN InProgress
    ELSE IF payload = Some(Completed) THEN Completed
    ELSE IF payload = Some(Busy) THEN Busy
    ELSE IF payload = Some(NoAnswerDash) THEN NoAnswer
    ELSE IF payload = Some(Failed) THEN Failed
    ELSE IF payload = Some(Canceled) THEN Canceled
    ELSE Failed

\* C31: mapStatus gives a CallStatus for every payload: in_progress for
\* queued, ringing and in-progress, the status of the same name for
\* completed, busy, no-answer, failed and canceled, and failed for every
\* other or missing CallStatus.
C31_MapStatusAsListed ==
    [][(srvOp' = "postStatus" /\ lastOp' = "status") =>
          /\ status' \in ProviderStatuses
          /\ status' = ListedStatus(hookPayload')]_vars

\* Twilio's "initiated" callback was handled and the call stands as failed.
C31_Witness ==
    /\ srvOp = "postStatus"
    /\ hookPayload = Some(Initiated)
    /\ lastOp = "status"
    /\ status = Failed

-----------------------------------------------------------------------------
(* Properties of the media socket, checked under SpecSrv *)

\* The step reads a frame of the given event from the socket.
Reads(event) == srvSeq' = srvSeq + 1 /\ srvFrame'.event = event

\* The sessions in this.sessions.
Registered(table) == {table[k] : k \in StreamKeys} \ {0}

\* C32: when the media socket drops without a stop frame, the session bound
\* to its stream is closed.
C32_SocketDropClosesSession ==
    [][(srvSocket = "open" /\ srvSocket' = "dropped") =>
          \A i \in Registered(srvTable) : srvSessions'[i].closed]_vars

\* C38: a start frame whose callId is missing or names no record closes the
\* socket, constructs no session and leaves the call record as it was.
C38_UnknownStartClosesSocket ==
    [][(Reads("start") /\ ~(created /\ srvFrame'.callId = Some(CallId))) =>
          /\ srvSocket' = "closed"
          /\ UNCHANGED <<srvSessions, srvTable>>
          /\ UNCHANGED <<created, status, attempt, report, completedAt,
                         streamStarted, writers>>]_vars

\* A start frame for the call had built a session; a second start frame
\* naming no record closed the socket and built none.
C38_Witness ==
    /\ srvOp = "startFrameUnknown"
    /\ created
    /\ srvFrame.callId = Some("call-9")
    /\ srvSocket = "closed"
    /\ Len(srvSessions) = 1
    /\ status = InProgress

\* C39: a stop frame closes the session registered for its stream and takes
\* it out of the table; until a start frame registers the stream again, a
\* media frame for it reaches no session; stop() closes every registered
\* session and empties the table.
C39_StopUnregistersAndCloses ==
    [][/\ Reads("stop") =>
             LET i == SessionOf(srvTable, srvFrame'.streamSid)
             IN  /\ SessionOf(srvTable', srvFrame'.streamSid) = 0
                 /\ i # 0 => srvSessions'[i].closed
       /\ (Reads("media") /\ SessionOf(srvTable, srvFrame'.streamSid) = 0) =>
             srvSessions' = srvSessions
       /\ \A k \in StreamKeys :
             (srvTable[k] = 0 /\ srvTable'[k] # 0) => Reads("start")
       /\ (srvOp' = "stop") =>
             /\ Registered(srvTable') = {}
             /\ \A i \in Registered(srvTable) : srvSessions'[i].closed]_vars

\* The session of stream MZ1 got audio, was closed and unregistered by the
\* stop frame, and the media frame after it was dropped.
C39_Witness ==
    /\ srvOp = "mediaFrameDropped"
    /\ srvFrame = Frame("media", None, Some("MZ1"), TRUE)
    /\ srvTable["MZ1"] = 0
    /\ Len(srvSessions) = 1
    /\ srvSessions[1] = [key |-> "MZ1", closed |-> TRUE, audio |-> 1]

-----------------------------------------------------------------------------
(* Properties of the outcome report, checked under Spec *)

\* C33: the first outcome report of a call leaves the call completed and a
\* hangup scheduled, whatever becomes of the notification.
C33_ReportCompletesAndHangsUp ==
    [][(lastOp' = "reportCall" /\ reportCalls' = reportCalls + 1 /\ report = NoReport) =>
          /\ status' = Completed
          /\ pendingHangups' = pendingHangups + 1]_vars

-----------------------------------------------------------------------------
(* Properties of the closed session, checked under SpecSdk *)

\* C35: once close() has been called the session hands no further message
\* to the transport: no session.update and no greeting.
C35_SilentAfterClose ==
    [][closed => sent' = sent]_vars

-----------------------------------------------------------------------------
(* Properties of bookings, checked under SpecBook and SpecCal *)

\* The readable stored intervals share no instant, two by two.
PairwiseFree(raw) ==
    \A i, j \in 1..Len(raw) :
        (i < j /\ ~InvalidInterval(raw[i]) /\ ~InvalidInterval(raw[j])) =>
            \/ DateParse(raw[i].end) <= DateParse(raw[j].start)
            \/ DateParse(raw[j].end) <= DateParse(raw[i].start)

\* The interval is stored already.
Stored(raw, req) == \E i \in 1..Len(raw) : raw[i] = req

\* C36: createEvent keeps the readable stored intervals pairwise
\* non-overlapping, and a createEvent for a readable interval that is
\* stored already is refused and stores nothing.
C36_BookingsNeverOverlap ==
    [][(calOp' = "createEvent") =>
          /\ PairwiseFree(occupiedTimeslots) => PairwiseFree(occupiedTimeslots')
          /\ (~InvalidInterval(calArg'[1]) /\ Stored(occupiedTimeslots, calArg'[1])) =>
                (~calResult'.ok /\ occupiedTimeslots' = occupiedTimeslots)]_vars

\* Two bookings next to each other were taken and the repeat of the first
\* was refused.
C36_Witness ==
    /\ calOp = "createEvent"
    /\ ~calResult.ok
    /\ Len(occupiedTimeslots) = 2
    /\ ~InvalidInterval(occupiedTimeslots[1])
    /\ ~InvalidInterval(occupiedTimeslots[2])
    /\ calArg = Some(occupiedTimeslots[1])

\* C37: findSlots and checkSlot leave the stored list as it was, the same
\* intervals in the same order, whatever the request.
C37_ReadsLeaveTheListAlone ==
    [][(calOp' \in {"findSlots", "checkSlot", "checkFound"}) =>
          occupiedTimeslots' = occupiedTimeslots]_vars

\* findSlots refused an unusable window over a list that holds an
\* unreadable interval before a readable one.
C37_Witness ==
    /\ calOp = "findSlots"
    /\ ~calResult.ok
    /\ occupiedTimeslots = <<UnreadableSlot, BusySlot>>

-----------------------------------------------------------------------------
(* Properties of the mu-law codec, checked under SpecCodec *)

\* G.711 mu-law over 16-bit samples: magnitudes are clipped at 32635, and
\* segment e of the biased magnitude has steps of 2^(e+3).
SegmentStep(sample) ==
    LET magnitude == IF Abs(sample) > 32635 THEN 32635 ELSE Abs(sample)
    IN  Pow(2, ExponentFrom(magnitude + BIAS, 7) + 3)

\* C34: encoding a 16-bit sample and decoding the byte gives a sample of
\* the same sign no further from the original than the step of its
\* segment; the sign is the high-order bit of the byte before inversion.
C34_RoundTripWithinStep ==
    /\ muLawByte # None =>
          ((255 - muLawByte[1]) \div 128 = 1) = (pcmSample < 0)
    /\ pcmDecoded # None =>
          /\ pcmSample >= 0 => pcmDecoded[1] >= 0
          /\ pcmSample <= 0 => pcmDecoded[1] <= 0
          /\ Abs(pcmDecoded[1] - pcmSample) <= SegmentStep(pcmSample)

\* The same for the samples the encoder does not clip.
UnclippedRoundTripWithinStep ==
    Abs(pcmSample) <= MU_LAW_MAX => C34_RoundTripWithinStep

====
